---- MODULE Spec2Model ----
(***************************************************************************)
(* Model of the trialmatcher criterion pipeline (msk-match):               *)
(*   langgraph/langgraph_main.py, langgraph/construct_graph.py, the node   *)
(*   functions under langgraph/, utils/schemas.py and the result store of  *)
(*   utils/redis_manager.py.                                               *)
(*                                                                         *)
(* A node of the graph receives the state, may mutate the objects it was   *)
(* handed in place, and returns a partial update; the update is merged     *)
(* into the state channel by channel (apply_writes): active_criterion      *)
(* through active_criterion_reducer, the token counters through            *)
(* operator.add, every other key by overwriting.                           *)
(***************************************************************************)
EXTENDS Integers, Sequences, FiniteSets, TLC

\* ------------------------------------------------------------------ bounds
\* longest trial criteria list (inclusion criteria followed by exclusion criteria)
MaxCriteria == 2
\* longest rag_docs list of one expert fragment handed to the reducer
MaxDocs == 2

\* ------------------------------------------------------------ optional values
\* Python's None and a present value: the empty and the one-element tuple
None == <<>>
Some(x) == <<x>>
Val(o) == o[1]

\* the image of a sequence
Range(s) == {s[i] : i \in 1..Len(s)}

\* the right operand alone in place of the union
DictRight(a, b) == b

\* dict union a | b: the keys of both, b's value where both have the key
DictUnion(a, b) == b @@ a

\* --------------------------------------------------------------- schemas.py
CriterionTypes == {"inclusion", "exclusion"}
Determinations == {"met", "not met", "unable to determine"}
FinalDeterminations == {"eligible", "ineligible"}
Methods == {"rule_based", "single_prompt", "chain_of_thought"}
Flags == {"normal", "vacuous", "requires_human_review"}

\* Criterion(...) as trials/__init__.py constructs it; an id is the text
\* "<type> criterion <n>", kept as its whitespace-separated words
NewCriterion(type, n, flag) ==
    [id |-> <<type, "criterion", n>>,
     criterion_type |-> type,
     vacuous |-> (flag = "vacuous"),
     requires_human_review |-> (flag = "requires_human_review"),
     determination |-> "None",
     explanation |-> None,
     answered_by |-> None,
     rag_docs |-> None]

\* all_trial_criteria[trial_id]: inc + exc, each numbered from 1; the lists of
\* every length up to MaxCriteria also cover the debug_first_n truncation
TrialOf(ni, ne, fl) ==
    [i \in 1..(ni + ne) |->
        IF i <= ni THEN NewCriterion("inclusion", i, fl[i])
                   ELSE NewCriterion("exclusion", i - ni, fl[i])]

all_trial_criteria ==
    UNION { UNION { { TrialOf(ni, n - ni, fl) : fl \in [1..n -> Flags] }
                    : ni \in 0..n }
            : n \in 1..MaxCriteria }

\* explanation dict: None counts as falsy, a dict as truthy when non-empty
Truthy(expl) == expl # None /\ DOMAIN Val(expl) # {}

\* NewDocs without the filter on the current ids
AllDocs(current_docs, update_docs) == update_docs

\* the part of the update's rag_docs whose id is not among the current ones
NewDocs(current_docs, update_docs) ==
    SelectSeq(update_docs, LAMBDA d : d \notin Range(current_docs))

\* active_criterion_reducer raises (AttributeError on None.id, TypeError on
\* rag_docs None, or the explicit ValueError)
reducer_raises(current, update) ==
    /\ update # None
    /\ \/ current = None
       \/ /\ Val(current).id = Val(update).id
          /\ Val(current).explanation # Val(update).explanation
          /\ ~(Truthy(Val(current).explanation) /\ Val(update).explanation = None)
          /\ ~(Truthy(Val(update).explanation) /\ Val(current).explanation = None)
          /\ \/ ~(Truthy(Val(current).explanation) /\ Truthy(Val(update).explanation))
             \/ Val(current).rag_docs = None
             \/ Val(update).rag_docs = None

\* MergeSameId with the update's explanation replacing the current one
MergeOverwrite(c, u) ==
    [c EXCEPT !.explanation = u.explanation,
              !.rag_docs = Some(Val(c.rag_docs) \o NewDocs(Val(c.rag_docs), Val(u.rag_docs)))]

\* the merge of two fragments with the same id that both carry an explanation
MergeSameId(c, u) ==
    [c EXCEPT !.explanation = Some(DictUnion(Val(c.explanation), Val(u.explanation))),
              !.rag_docs = Some(Val(c.rag_docs) \o NewDocs(Val(c.rag_docs), Val(u.rag_docs)))]

\* the reducer keeping the current criterion when the update is None
reducer_keeps_current(current, update) ==
    IF update # None /\ current # None /\ Val(current).id = Val(update).id
    THEN IF Val(current).explanation = Val(update).explanation THEN current
         ELSE IF Truthy(Val(current).explanation) /\ Val(update).explanation = None
              THEN current
         ELSE IF Truthy(Val(update).explanation) /\ Val(current).explanation = None
              THEN update
         ELSE Some(MergeSameId(Val(current), Val(update)))
    ELSE IF update = None THEN current ELSE update

active_criterion_reducer(current, update) ==
    IF update # None /\ current # None /\ Val(current).id = Val(update).id
    THEN IF Val(current).explanation = Val(update).explanation THEN current
         ELSE IF Truthy(Val(current).explanation) /\ Val(update).explanation = None
              THEN current
         ELSE IF Truthy(Val(update).explanation) /\ Val(current).explanation = None
              THEN update
         ELSE Some(MergeSameId(Val(current), Val(update)))
    ELSE update

\* ------------------------------------------------- evidence and configuration
\* run_config.split_vectorstore_by_agent: {agent_name: [keywords]}; a document's
\* type is modelled by the set of agents whose keyword pattern it matches
ExpertNames == {"cardiology", "oncology"}
AgentRank == <<"cardiology", "expert", "generalist", "oncology">>
DocRank == <<1, 2, 3>>

\* a list holding the members of a set, in a fixed order
AgentList(S) == SelectSeq(AgentRank, LAMBDA a : a \in S)
DocList(S) == SelectSeq(DocRank, LAMBDA d : d \in S)

\* vectorstore.store of three patients: no document at all; specialist notes
\* only (one matched by both patterns); one specialist note and one other note
VectorStores ==
    { {},
      {[id |-> 1, matches |-> {"oncology"}],
       [id |-> 2, matches |-> {"oncology", "cardiology"}],
       [id |-> 3, matches |-> {"cardiology"}]},
      {[id |-> 1, matches |-> {"oncology"}],
       [id |-> 3, matches |-> {}]} }

FullStore == CHOOSE v \in VectorStores : Cardinality(v) = 3

\* split_vectorstore_by_agent: agent name -> ids of its documents; an agent
\* without documents gets no entry, the unmatched documents go to "generalist"
split_vectorstore_by_agent(store) ==
    LET bucket(a) == IF a = "generalist"
                     THEN {d.id : d \in {x \in store : x.matches = {}}}
                     ELSE {d.id : d \in {x \in store : a \in x.matches}}
        names == {a \in ExpertNames \cup {"generalist"} : bucket(a) # {}}
    IN [a \in names |-> bucket(a)]

\* retriever.invoke: the (at most k) nearest documents of a store, nearest first
Retrieve(ids) == DocList(ids)

RunConfigs ==
    [split_vectorstore_by_agent : BOOLEAN,
     check_explanations : BOOLEAN,
     final_determination_method : Methods,
     persist : {"redis", "experiment", "file"}]

\* response.usage of an LLM call, by the call's place; the token counts never
\* steer the pipeline, which only adds them up
Usage ==
    [agent |-> [prompt_tokens |-> 3, completion_tokens |-> 2],
     router |-> [prompt_tokens |-> 1, completion_tokens |-> 1],
     principal_investigator |-> [prompt_tokens |-> 2, completion_tokens |-> 1],
     check |-> [prompt_tokens |-> 2, completion_tokens |-> 2],
     query |-> [prompt_tokens |-> 1, completion_tokens |-> 3],
     refine |-> [prompt_tokens |-> 4, completion_tokens |-> 3],
     final |-> [prompt_tokens |-> 7, completion_tokens |-> 2]]

\* ------------------------------------------------------------------- state
VARIABLES
    pc,             \* the node the graph runs next, or the run's outcome
    run_config,     \* TrialMatcherConfig of the run
    trial_criteria, \* all_trial_criteria[trial_id] after debug_first_n
    vectorstore,    \* the patient's documents
    graph,          \* build_graph's result: kind and agent_name_to_vectorstores
    state,          \* TrialMatcherState, the graph's channels
    out_file,       \* <output_dir>/<mrn>_<trial_id>_output.json
    redis,          \* the keys of the (mrn, protocol) pair in Redis
    llm_usage,      \* history: tokens of every LLM call that returned
    stage_log,      \* history: <<node, criterion id>> of every node run
    dispatched,     \* history: criterion ids handed to consult_agent
    result_writes,  \* history: pc and final_determination at each result write
    fragments,      \* the expert fragments handed to active_criterion_reducer
    merged,         \* what active_criterion_reducer made of them
    clients,        \* the processes inside add_ai_output / add_human_output
    batch,          \* run_experiment's loop over the dataset rows
    retry,          \* one call through retry_with_exponential_backoff
    routing,        \* the router's response handed to consult_expert
    ui,             \* the review page: the loaded result and what it shows
    process,        \* the calls of run_langgraph_trial_matcher one process makes
    pregel,         \* graph.invoke's loop: the supersteps counted against the limit
    call            \* a function called on its own: its arguments and its result

reducer_vars == <<fragments, merged>>

side_vars == <<clients, batch, retry, routing, ui, process, pregel, call>>

vars == <<pc, run_config, trial_criteria, vectorstore, graph, state, out_file,
          redis, llm_usage, stage_log, dispatched, result_writes, reducer_vars,
          side_vars>>

\* the run holds no state (before it is built, and after the run is left)
NoState ==
    [uncompleted_criteria |-> <<>>, active_criterion |-> None,
     completed_criteria |-> <<>>, n_total_criteria |-> 0,
     final_determination |-> "None", input_tokens |-> 0, output_tokens |-> 0]

NoGraph == [kind |-> "none", agents |-> <<>>]

EmptyRedis == [master |-> None, ai_outputs |-> <<>>, human_outputs |-> <<>>,
               experiment_results |-> <<>>]

\* no process is inside the store's writers, no batch and no LLM call is on
IdleSide ==
    /\ clients = <<>>
    /\ batch = None
    /\ retry = None
    /\ routing = None
    /\ ui = None
    /\ process = None
    /\ pregel = None
    /\ call = None

\* a result left by an earlier run of the same pair
OldResult == [final_determination |-> "eligible", input_tokens |-> 0,
              output_tokens |-> 0, completed_criteria |-> <<>>]

Init ==
    /\ pc = "start"
    /\ run_config \in RunConfigs
    /\ trial_criteria \in all_trial_criteria
    /\ vectorstore \in IF run_config.split_vectorstore_by_agent
                       THEN VectorStores ELSE {FullStore}
    /\ graph = NoGraph
    /\ state = NoState
    /\ out_file \in IF run_config.persist = "file"
                    THEN {None, Some(Some(OldResult))} ELSE {None}
    /\ redis = EmptyRedis
    /\ llm_usage = [input |-> 0, output |-> 0]
    /\ stage_log = <<>>
    /\ dispatched = {}
    /\ result_writes = <<>>
    /\ fragments = None
    /\ merged = None
    /\ IdleSide

\* ------------------------------------------------------------- the channels
\* the token channels without operator.add: the last write wins
channel_last_write(k, cur, upd) ==
    CASE k = "active_criterion" -> active_criterion_reducer(cur, upd)
      [] OTHER -> upd

\* one channel's update: the Annotated reducers of TrialMatcherState
Channel(k, cur, upd) ==
    CASE k = "active_criterion" -> active_criterion_reducer(cur, upd)
      [] k \in {"input_tokens", "output_tokens"} -> cur + upd
      [] OTHER -> upd

\* merge a node's returned update into the state; keys that are no channel of
\* TrialMatcherState are dropped
apply_writes(s, u) ==
    [k \in DOMAIN s |-> IF k \in DOMAIN u THEN Channel(k, s[k], u[k]) ELSE s[k]]

\* the run is left on an exception: the state object is dropped
Abort ==
    /\ pc' = "aborted"
    /\ state' = NoState

Log(node) == stage_log' = Append(stage_log, <<node, Val(state.active_criterion).id>>)

Called(us) ==
    llm_usage' = [input |-> llm_usage.input + us.prompt_tokens,
                  output |-> llm_usage.output + us.completion_tokens]

\* sum of the usage of several LLM calls, given as a sequence
RECURSIVE SumPrompt(_), SumCompletion(_)
SumPrompt(uss) ==
    IF uss = <<>> THEN 0 ELSE Head(uss).prompt_tokens + SumPrompt(Tail(uss))
SumCompletion(uss) ==
    IF uss = <<>> THEN 0 ELSE Head(uss).completion_tokens + SumCompletion(Tail(uss))

CalledAll(uss) ==
    llm_usage' = [input |-> llm_usage.input + SumPrompt(uss),
                  output |-> llm_usage.output + SumCompletion(uss)]

\* apply the updates of the nodes of one step, one after the other
RECURSIVE FoldWrites(_, _)
FoldWrites(s, updates) ==
    IF updates = <<>> THEN s
    ELSE FoldWrites(apply_writes(s, Head(updates)), Tail(updates))

\* every ordering of a finite set, as sequences
Orderings(S) ==
    {f \in [1..Cardinality(S) -> S] : \A i, j \in DOMAIN f : f[i] = f[j] => i = j}

\* the text an agent answers with (its content never steers the pipeline)
AnswerText ==
    [expert |-> "answer of expert", cardiology |-> "answer of cardiology",
     oncology |-> "answer of oncology", generalist |-> "answer of generalist"]

\* ------------------------------------------------- run_langgraph_trial_matcher
PreResolved(c) == c.vacuous \/ c.requires_human_review

\* the pre-pass over vacuous criteria and criteria that require human review
Resolve(c) ==
    IF c.vacuous
    THEN [c EXCEPT !.determination = "met",
                   !.explanation = Some("rule" :> "Vacuous criterion")]
    ELSE [c EXCEPT !.determination = "unable to determine",
                   !.explanation = Some("rule" :> "Requires human review")]

\* initial_uncomplete filtering the vacuous criteria only
uncomplete_keeps_review(tc) == SelectSeq(tc, LAMBDA c : ~c.vacuous)

initial_uncomplete(tc) == SelectSeq(tc, LAMBDA c : ~PreResolved(c))

initial_complete(tc) ==
    LET pre == SelectSeq(tc, PreResolved)
    IN [i \in 1..Len(pre) |-> Resolve(pre[i])]

\* initial_state with pop() in place of pop(0): the last criterion goes first
initial_state_last_first(tc) ==
    LET unc == initial_uncomplete(tc)
    IN [uncompleted_criteria |-> SubSeq(unc, 1, Len(unc) - 1),
        active_criterion |-> Some(unc[Len(unc)]),
        completed_criteria |-> initial_complete(tc),
        n_total_criteria |-> Len(tc),
        final_determination |-> "None",
        input_tokens |-> 0,
        output_tokens |-> 0]

\* initial_active = initial_uncomplete.pop(0) and the TrialMatcherState built
initial_state(tc) ==
    [uncompleted_criteria |-> Tail(initial_uncomplete(tc)),
     active_criterion |-> Some(Head(initial_uncomplete(tc))),
     completed_criteria |-> initial_complete(tc),
     n_total_criteria |-> Len(tc),
     final_determination |-> "None",
     input_tokens |-> 0,
     output_tokens |-> 0]

\* build_graph: the branching graph when the table is configured and the split
\* yields an agent, the single-expert graph otherwise (also as the fallback)
build_graph(cfg, store) ==
    IF cfg.split_vectorstore_by_agent /\ DOMAIN split_vectorstore_by_agent(store) # {}
    THEN [kind |-> "multi", agents |-> split_vectorstore_by_agent(store)]
    ELSE [kind |-> "single", agents |-> ("expert" :> {d.id : d \in store})]

\* the pre-pass assigns to the Criterion objects of all_trial_criteria[trial_id]
\* themselves: .copy() copies the list, not its objects
pre_pass(tc) ==
    [i \in DOMAIN tc |-> IF PreResolved(tc[i]) THEN Resolve(tc[i]) ELSE tc[i]]

\* run_langgraph_trial_matcher going on without an active criterion when the
\* pre-pass left no criterion for the experts
run_langgraph_trial_matcher_empty_queue ==
    /\ pc = "start"
    /\ IF out_file # None
       THEN /\ pc' = "skipped"
            /\ UNCHANGED <<graph, state, trial_criteria>>
       ELSE IF initial_uncomplete(trial_criteria) = <<>>
            THEN /\ graph' = build_graph(run_config, vectorstore)
                 /\ state' = [NoState EXCEPT
                                 !.completed_criteria = initial_complete(trial_criteria),
                                 !.n_total_criteria = Len(trial_criteria)]
                 /\ trial_criteria' = pre_pass(trial_criteria)
                 /\ pc' = "make_final_determination"
            ELSE /\ graph' = build_graph(run_config, vectorstore)
                 /\ state' = initial_state(trial_criteria)
                 /\ trial_criteria' = pre_pass(trial_criteria)
                 /\ pc' = "trial_coordinator"
    /\ UNCHANGED <<reducer_vars, side_vars, run_config, vectorstore, out_file, redis,
                   llm_usage, stage_log, dispatched, result_writes>>

\* run_langgraph_trial_matcher without the test for the output file
run_langgraph_trial_matcher_without_skip ==
    /\ pc = "start"
    /\ IF initial_uncomplete(trial_criteria) = <<>>
       THEN /\ Abort
            /\ trial_criteria' = pre_pass(trial_criteria)
            /\ UNCHANGED graph
       ELSE /\ graph' = build_graph(run_config, vectorstore)
            /\ state' = initial_state(trial_criteria)
            /\ trial_criteria' = pre_pass(trial_criteria)
            /\ pc' = "trial_coordinator"
    /\ UNCHANGED <<reducer_vars, side_vars, run_config, vectorstore, out_file, redis,
                   llm_usage, stage_log, dispatched, result_writes>>

\* the call up to graph.invoke: skip when the output file exists, IndexError
\* when no criterion is left for the experts
run_langgraph_trial_matcher ==
    /\ pc = "start"
    /\ IF out_file # None
       THEN /\ pc' = "skipped"
            /\ UNCHANGED <<graph, state, trial_criteria>>
       ELSE IF initial_uncomplete(trial_criteria) = <<>>
            THEN /\ Abort
                 /\ trial_criteria' = pre_pass(trial_criteria)
                 /\ UNCHANGED graph
            ELSE /\ graph' = build_graph(run_config, vectorstore)
                 /\ state' = initial_state(trial_criteria)
                 /\ trial_criteria' = pre_pass(trial_criteria)
                 /\ pc' = "trial_coordinator"
    /\ UNCHANGED <<reducer_vars, side_vars, run_config, vectorstore, out_file, redis,
                   llm_usage, stage_log, dispatched, result_writes>>

\* ------------------------------------------------------------------- nodes
\* trial_coordinator wired straight to principal_investigator
Node_trial_coordinator_skips_experts ==
    /\ pc = "trial_coordinator"
    /\ Log("trial_coordinator")
    /\ pc' = "principal_investigator"
    /\ UNCHANGED <<reducer_vars, side_vars, run_config, trial_criteria, vectorstore, graph, state, out_file,
                   redis, llm_usage, dispatched, result_writes>>

Node_trial_coordinator ==
    /\ pc = "trial_coordinator"
    /\ Log("trial_coordinator")
    /\ pc' = IF graph.kind = "multi" THEN "consult_expert" ELSE "expert"
    /\ UNCHANGED <<reducer_vars, side_vars, run_config, trial_criteria, vectorstore, graph, state, out_file,
                   redis, llm_usage, dispatched, result_writes>>

\* every agent node answering as the agent the loop over the agents ended on
\* (the lambdas sharing the loop variable)
consult_agent_late_binding(agent_name, store, s, us) ==
    LET names == AgentList(DOMAIN graph.agents)
        last == names[Len(names)]
    IN [active_criterion |->
           Some([Val(s.active_criterion) EXCEPT
                    !.rag_docs = Some(Retrieve(graph.agents[last])),
                    !.explanation = Some(last :> AnswerText[last])]),
        input_tokens |-> us.prompt_tokens,
        output_tokens |-> us.completion_tokens]

\* consult_agent's returned update: a copy of the active criterion carrying the
\* retrieved documents and the agent's explanation
consult_agent(agent_name, store, s, us) ==
    [active_criterion |->
        Some([Val(s.active_criterion) EXCEPT
                 !.rag_docs = Some(Retrieve(store)),
                 !.explanation = Some(agent_name :> AnswerText[agent_name])]),
     input_tokens |-> us.prompt_tokens,
     output_tokens |-> us.completion_tokens]

\* the "expert" node of the single-expert graph
Node_expert ==
    /\ pc = "expert"
    /\ state' = apply_writes(state,
                   consult_agent("expert", graph.agents["expert"], state, Usage.agent))
    /\ Called(Usage.agent)
    /\ dispatched' = dispatched \cup {Val(state.active_criterion).id}
    /\ Log("expert")
    /\ pc' = "principal_investigator"
    /\ UNCHANGED <<reducer_vars, side_vars, run_config, trial_criteria, vectorstore, graph, out_file, redis,
                   result_writes>>

\* the router's structured output: a list of expert_choices members, possibly
\* empty, possibly naming an expert twice
RouterResponses(expert_choices) ==
    UNION {[1..n -> expert_choices] : n \in 0..2}

\* ExpertChoice.make_unique: list(set(val))
make_unique(val) == AgentList(Range(val))

\* next_expert taken from the response as it is, without the fallback
next_expert_as_parsed(response, expert_choices) == make_unique(response)

\* consult_expert: the experts to route to; generalist, else everyone, when the
\* response names nobody
next_expert(response, expert_choices) ==
    IF make_unique(response) # <<>> THEN make_unique(response)
    ELSE IF "generalist" \in expert_choices THEN <<"generalist">>
    ELSE AgentList(expert_choices)

\* consult_expert sets answered_by on the active criterion and returns it
consult_expert(s, response, us) ==
    LET s1 == [s EXCEPT !.active_criterion =
                  Some([Val(@) EXCEPT !.answered_by =
                           Some(next_expert(response, DOMAIN graph.agents))])]
    IN apply_writes(s1, [active_criterion |-> s1.active_criterion,
                         input_tokens |-> us.prompt_tokens,
                         output_tokens |-> us.completion_tokens])

\* state.active_criterion is still the Criterion object of the trial's list
\* when consult_expert assigns answered_by to it
answered_in_place(tc, s, response) ==
    [i \in DOMAIN tc |->
        IF tc[i].id = Val(s.active_criterion).id
        THEN [tc[i] EXCEPT !.answered_by =
                 Some(next_expert(response, DOMAIN graph.agents))]
        ELSE tc[i]]

Node_consult_expert ==
    /\ pc = "consult_expert"
    /\ \E response \in RouterResponses(DOMAIN graph.agents) :
          /\ state' = consult_expert(state, response, Usage.router)
          /\ trial_criteria' = answered_in_place(trial_criteria, state, response)
    /\ Called(Usage.router)
    /\ Log("consult_expert")
    /\ pc' = "experts"
    /\ UNCHANGED <<reducer_vars, side_vars, run_config, vectorstore, graph, out_file, redis,
                   dispatched, result_writes>>

\* route_consult_expert fans out to the agents of answered_by; every agent node
\* reads the same state, and their updates are merged in some order
Node_experts ==
    /\ pc = "experts"
    /\ LET chosen == Range(Val(Val(state.active_criterion).answered_by))
       IN \E ord \in Orderings(chosen) :
             /\ state' = FoldWrites(state,
                   [i \in 1..Len(ord) |->
                       consult_agent(ord[i], graph.agents[ord[i]], state, Usage.agent)])
             /\ CalledAll([i \in 1..Len(ord) |-> Usage.agent])
    /\ dispatched' = dispatched \cup {Val(state.active_criterion).id}
    /\ Log("experts")
    /\ pc' = "principal_investigator"
    /\ UNCHANGED <<reducer_vars, side_vars, run_config, trial_criteria, vectorstore, graph, out_file, redis,
                   result_writes>>

\* principal_investigator returning the usage of its call only
principal_investigator_undecided(s, determination, us) ==
    apply_writes(s, [input_tokens |-> us.prompt_tokens,
                     output_tokens |-> us.completion_tokens])

\* principal_investigator sets the determination on the active criterion and
\* returns it with the call's usage
principal_investigator(s, determination, us) ==
    LET s1 == [s EXCEPT !.active_criterion =
                  Some([Val(@) EXCEPT !.determination = determination])]
    IN apply_writes(s1, [active_criterion |-> s1.active_criterion,
                         input_tokens |-> us.prompt_tokens,
                         output_tokens |-> us.completion_tokens])

Node_principal_investigator ==
    /\ pc = "principal_investigator"
    /\ \E determination \in Determinations :
          state' = principal_investigator(state, determination,
                                          Usage.principal_investigator)
    /\ Called(Usage.principal_investigator)
    /\ Log("principal_investigator")
    /\ pc' = IF run_config.check_explanations THEN "check_explanation"
             ELSE "update_current_criterion"
    /\ UNCHANGED <<reducer_vars, side_vars, run_config, trial_criteria, vectorstore, graph, out_file, redis,
                   dispatched, result_writes>>

\* check_explanation: "continue" returns the usage of the one call;
\* "query_and_refine" makes two more calls, stores the revision under
\* "revised" in the active criterion's explanation and returns the summed
\* usage (and a key "current_criterion", which is no channel)
\* check_explanation replacing the explanation by the revision
check_explanation_overwrites(s, next_step, uss) ==
    IF next_step = "continue"
    THEN apply_writes(s, [input_tokens |-> uss[1].prompt_tokens,
                          output_tokens |-> uss[1].completion_tokens])
    ELSE LET s1 == [s EXCEPT !.active_criterion =
                       Some([Val(@) EXCEPT !.explanation =
                          Some("revised" :> "revised explanation")])]
         IN apply_writes(s1, [input_tokens |-> SumPrompt(uss),
                              output_tokens |-> SumCompletion(uss),
                              current_criterion |-> s1.active_criterion])

check_explanation(s, next_step, uss) ==
    IF next_step = "continue"
    THEN apply_writes(s, [input_tokens |-> uss[1].prompt_tokens,
                          output_tokens |-> uss[1].completion_tokens])
    ELSE LET s1 == [s EXCEPT !.active_criterion =
                       Some([Val(@) EXCEPT !.explanation =
                          Some(DictUnion(Val(@), "revised" :> "revised explanation"))])]
         IN apply_writes(s1, [input_tokens |-> SumPrompt(uss),
                              output_tokens |-> SumCompletion(uss),
                              current_criterion |-> s1.active_criterion])

\* the gate with an edge back to itself after a revision
Node_check_explanation_rechecks ==
    /\ pc = "check_explanation"
    /\ \E next_step \in {"continue", "query_and_refine"} :
          LET uss == IF next_step = "continue" THEN <<Usage.check>>
                     ELSE <<Usage.check, Usage.query, Usage.refine>>
          IN /\ state' = check_explanation(state, next_step, uss)
             /\ CalledAll(uss)
             /\ pc' = IF next_step = "continue" THEN "update_current_criterion"
                      ELSE "check_explanation"
    /\ Log("check_explanation")
    /\ UNCHANGED <<reducer_vars, side_vars, run_config, trial_criteria, vectorstore, graph, out_file, redis,
                   dispatched, result_writes>>

Node_check_explanation ==
    /\ pc = "check_explanation"
    /\ \E next_step \in {"continue", "query_and_refine"} :
          LET uss == IF next_step = "continue" THEN <<Usage.check>>
                     ELSE <<Usage.check, Usage.query, Usage.refine>>
          IN /\ state' = check_explanation(state, next_step, uss)
             /\ CalledAll(uss)
    /\ Log("check_explanation")
    /\ pc' = "update_current_criterion"
    /\ UNCHANGED <<reducer_vars, side_vars, run_config, trial_criteria, vectorstore, graph, out_file, redis,
                   dispatched, result_writes>>

\* update_current_criterion taking the criterion behind the next one
update_skips_next(s) ==
    [uncompleted_criteria |->
        IF Len(s.uncompleted_criteria) > 1 THEN Tail(Tail(s.uncompleted_criteria))
        ELSE <<>>,
     active_criterion |->
        IF Len(s.uncompleted_criteria) > 1
        THEN Some(Head(Tail(s.uncompleted_criteria))) ELSE None,
     completed_criteria |-> Append(s.completed_criteria, Val(s.active_criterion))]

\* update_current_criterion without the move of the current criterion
update_loses_current(s) ==
    [uncompleted_criteria |->
        IF s.uncompleted_criteria # <<>> THEN Tail(s.uncompleted_criteria) ELSE <<>>,
     active_criterion |->
        IF s.uncompleted_criteria # <<>> THEN Some(Head(s.uncompleted_criteria))
        ELSE None,
     completed_criteria |-> s.completed_criteria]

\* update_current_criterion putting the current criterion in front
update_prepends_current(s) ==
    [uncompleted_criteria |->
        IF s.uncompleted_criteria # <<>> THEN Tail(s.uncompleted_criteria) ELSE <<>>,
     active_criterion |->
        IF s.uncompleted_criteria # <<>> THEN Some(Head(s.uncompleted_criteria))
        ELSE None,
     completed_criteria |-> <<Val(s.active_criterion)>> \o s.completed_criteria]

\* update_current_criterion's returned update
update_current_criterion(s) ==
    [uncompleted_criteria |->
        IF s.uncompleted_criteria # <<>> THEN Tail(s.uncompleted_criteria) ELSE <<>>,
     active_criterion |->
        IF s.uncompleted_criteria # <<>> THEN Some(Head(s.uncompleted_criteria))
        ELSE None,
     completed_criteria |-> Append(s.completed_criteria, Val(s.active_criterion))]

\* check_if_done wired past the final determination
check_if_done_skips_final(s) ==
    IF s.active_criterion = None THEN "save_results"
    ELSE "trial_coordinator"

\* check_if_done looking at the waiting criteria instead of the active one
check_if_done_by_uncompleted(s) ==
    IF s.uncompleted_criteria = <<>> THEN "make_final_determination"
    ELSE "trial_coordinator"

\* the conditional edge after update_current_criterion
check_if_done(s) ==
    IF s.active_criterion = None THEN "make_final_determination"
    ELSE "trial_coordinator"

Node_update_current_criterion ==
    /\ pc = "update_current_criterion"
    /\ state' = apply_writes(state, update_current_criterion(state))
    /\ Log("update_current_criterion")
    /\ pc' = check_if_done(state')
    /\ UNCHANGED <<reducer_vars, side_vars, run_config, trial_criteria, vectorstore, graph, out_file, redis,
                   llm_usage, dispatched, result_writes>>

\* ------------------------------------------------------ final determination
\* the loop with the directionality of exclusion criteria lost: any "not met"
\* disqualifies
RECURSIVE verdict_by_not_met(_)
verdict_by_not_met(completed) ==
    IF completed = <<>> THEN "eligible"
    ELSE IF Head(completed).determination = "not met" THEN "ineligible"
    ELSE verdict_by_not_met(Tail(completed))

\* the loop returning at the first criterion that is decided, whichever way
RECURSIVE verdict_of_first_decided(_)
verdict_of_first_decided(completed) ==
    IF completed = <<>> THEN "eligible"
    ELSE LET crit == Head(completed)
         IN IF crit.determination = "unable to determine"
            THEN verdict_of_first_decided(Tail(completed))
            ELSE IF crit.criterion_type = "inclusion" /\ crit.determination = "not met"
            THEN "ineligible"
            ELSE IF crit.criterion_type = "exclusion" /\ crit.determination = "met"
            THEN "ineligible"
            ELSE "eligible"

\* the loop of final_determination_rule_based over completed_criteria
RECURSIVE rule_based_verdict(_)
rule_based_verdict(completed) ==
    IF completed = <<>> THEN "eligible"
    ELSE LET crit == Head(completed)
         IN IF crit.determination = "unable to determine"
            THEN rule_based_verdict(Tail(completed))
            ELSE IF crit.criterion_type = "inclusion" /\ crit.determination = "not met"
            THEN "ineligible"
            ELSE IF crit.criterion_type = "exclusion" /\ crit.determination = "met"
            THEN "ineligible"
            ELSE rule_based_verdict(Tail(completed))

\* the count the assertion of final_determination_rule_based compares
\* the count without the criteria still waiting
criteria_found_without_waiting(s) ==
    Len(s.completed_criteria) + (IF s.active_criterion # None THEN 1 ELSE 0)

criteria_found(s) ==
    Len(s.completed_criteria) + Len(s.uncompleted_criteria)
        + (IF s.active_criterion # None THEN 1 ELSE 0)

\* each strategy sets final_determination on the state object it was handed
\* and returns that object: every channel is written with its own value
final_determination_rule_based(s) ==
    apply_writes(s, [s EXCEPT !.final_determination =
                                 rule_based_verdict(s.completed_criteria)])

final_determination_single_prompt(s, verdict) ==
    apply_writes(s, [s EXCEPT !.final_determination = verdict])

final_determination_COT(s, verdict) ==
    apply_writes(s, [s EXCEPT !.final_determination = verdict])

Node_final_determination_rule_based ==
    /\ pc = "make_final_determination"
    /\ run_config.final_determination_method = "rule_based"
    /\ IF criteria_found(state) = state.n_total_criteria
       THEN /\ state' = final_determination_rule_based(state)
            /\ pc' = "save_results"
       ELSE Abort
    /\ UNCHANGED <<reducer_vars, side_vars, run_config, trial_criteria, vectorstore, graph, out_file, redis,
                   llm_usage, stage_log, dispatched, result_writes>>

Node_final_determination_single_prompt ==
    /\ pc = "make_final_determination"
    /\ run_config.final_determination_method = "single_prompt"
    /\ \E verdict \in FinalDeterminations :
          state' = final_determination_single_prompt(state, verdict)
    /\ Called(Usage.final)
    /\ pc' = "save_results"
    /\ UNCHANGED <<reducer_vars, side_vars, run_config, trial_criteria, vectorstore, graph, out_file, redis,
                   stage_log, dispatched, result_writes>>

Node_final_determination_COT ==
    /\ pc = "make_final_determination"
    /\ run_config.final_determination_method = "chain_of_thought"
    /\ \E verdict \in FinalDeterminations :
          state' = final_determination_COT(state, verdict)
    /\ Called(Usage.final)
    /\ pc' = "save_results"
    /\ UNCHANGED <<reducer_vars, side_vars, run_config, trial_criteria, vectorstore, graph, out_file, redis,
                   stage_log, dispatched, result_writes>>

\* ------------------------------------------------------------- save_results
\* sort key of save_results: inclusion before exclusion, then the number that
\* ends the id
\* type_rank putting the exclusion criteria first
type_rank_exclusion_first(c) == IF c.criterion_type = "exclusion" THEN -1 ELSE 0

type_rank(c) == IF c.criterion_type = "inclusion" THEN -1 ELSE 0
id_number(c) == c.id[Len(c.id)]
KeyLeq(a, b) ==
    \/ type_rank(a) < type_rank(b)
    \/ type_rank(a) = type_rank(b) /\ id_number(a) <= id_number(b)

\* sorted(): a stable sort, here by insertion
RECURSIVE InsertByKey(_, _), sorted_criteria(_)
InsertByKey(c, srt) ==
    IF srt = <<>> THEN <<c>>
    ELSE IF KeyLeq(Head(srt), c) THEN <<Head(srt)>> \o InsertByKey(c, Tail(srt))
    ELSE <<c>> \o srt
sorted_criteria(cs) ==
    IF cs = <<>> THEN <<>>
    ELSE InsertByKey(cs[Len(cs)], sorted_criteria(SubSeq(cs, 1, Len(cs) - 1)))

\* state.model_dump_json() after the sort
ResultDoc(s) ==
    [s EXCEPT !.completed_criteria = sorted_criteria(s.completed_criteria)]

Wrote == result_writes' = Append(result_writes,
            [at |-> pc, final_determination |-> state.final_determination])

\* save_results up to its first command on the store: the experiment's rpush,
\* _initialize_master_key of add_ai_output, or opening the output file
Node_save_results ==
    /\ pc = "save_results"
    /\ CASE run_config.persist = "experiment" ->
              /\ redis' = [redis EXCEPT !.experiment_results =
                                           Append(@, ResultDoc(state))]
              /\ Wrote
              /\ pc' = "END"
              /\ UNCHANGED out_file
         [] run_config.persist = "redis" ->
              /\ redis' = IF redis.master = None
                          THEN [redis EXCEPT !.master =
                                   Some([ai_count |-> -1, human_count |-> -1])]
                          ELSE redis
              /\ pc' = "hincrby"
              /\ UNCHANGED <<out_file, result_writes>>
         [] run_config.persist = "file" ->
              /\ out_file' = Some(None)
              /\ pc' = "write"
              /\ UNCHANGED <<redis, result_writes>>
    /\ UNCHANGED <<reducer_vars, side_vars, run_config, trial_criteria, vectorstore, graph, state,
                   llm_usage, stage_log, dispatched>>

\* add_ai_output: index = hincrby(master_key, "ai_count", 1)
add_ai_output_hincrby ==
    /\ pc = "hincrby"
    /\ redis' = [redis EXCEPT !.master = Some([Val(@) EXCEPT !.ai_count = @ + 1])]
    /\ pc' = "set"
    /\ UNCHANGED <<reducer_vars, side_vars, run_config, trial_criteria, vectorstore, graph, state, out_file,
                   llm_usage, stage_log, dispatched, result_writes>>

\* add_ai_output: set(<mrn>_<protocol>_output_<index>, result)
add_ai_output_set ==
    /\ pc = "set"
    /\ redis' = [redis EXCEPT !.ai_outputs =
                    (Val(redis.master).ai_count :> ResultDoc(state)) @@ @]
    /\ Wrote
    /\ pc' = "END"
    /\ UNCHANGED <<reducer_vars, side_vars, run_config, trial_criteria, vectorstore, graph, state, out_file,
                   llm_usage, stage_log, dispatched>>

\* f.write(state_json_data) and closing the file
write_out_file ==
    /\ pc = "write"
    /\ out_file' = Some(Some(ResultDoc(state)))
    /\ Wrote
    /\ pc' = "END"
    /\ UNCHANGED <<reducer_vars, side_vars, run_config, trial_criteria, vectorstore, graph, state, redis,
                   llm_usage, stage_log, dispatched>>

\* ----------------------------------------------------------------- failures
\* the places where a collaborator can raise: loading the patient record, an
\* LLM call whose retries are exhausted, a command on the store, a file write
RaisingStages ==
    {"expert", "consult_expert", "experts", "principal_investigator",
     "check_explanation", "save_results", "hincrby", "set", "write"}

node_raises ==
    /\ \/ pc \in RaisingStages
       \/ pc = "start" /\ out_file = None
       \/ pc = "make_final_determination"
          /\ run_config.final_determination_method # "rule_based"
    /\ Abort
    /\ UNCHANGED <<reducer_vars, side_vars, run_config, trial_criteria, vectorstore, graph, out_file, redis,
                   llm_usage, stage_log, dispatched, result_writes>>

Next ==
    \/ run_langgraph_trial_matcher
    \/ Node_trial_coordinator
    \/ Node_expert
    \/ Node_consult_expert
    \/ Node_experts
    \/ Node_principal_investigator
    \/ Node_check_explanation
    \/ Node_update_current_criterion
    \/ Node_final_determination_rule_based
    \/ Node_final_determination_single_prompt
    \/ Node_final_determination_COT
    \/ Node_save_results
    \/ add_ai_output_hincrby
    \/ add_ai_output_set
    \/ write_out_file
    \/ node_raises

Spec == Init /\ [][Next]_vars

\* ------------------------------------------------- a run whose calls all return
\* graph.invoke runs one node after the other on one thread, so a run in which
\* no collaborator raises takes its next step whenever it has one
NextLive ==
    \/ run_langgraph_trial_matcher
    \/ Node_trial_coordinator
    \/ Node_expert
    \/ Node_consult_expert
    \/ Node_experts
    \/ Node_principal_investigator
    \/ Node_check_explanation
    \/ Node_update_current_criterion
    \/ Node_final_determination_rule_based
    \/ Node_final_determination_single_prompt
    \/ Node_final_determination_COT
    \/ Node_save_results
    \/ add_ai_output_hincrby
    \/ add_ai_output_set
    \/ write_out_file

SpecLive == Init /\ [][NextLive]_vars /\ WF_vars(NextLive)

\* --------------------------------------- the rule-based verdict on its own
\* final_determination_rule_based applied to any completed_criteria list
\* longest completed_criteria list handed to it
MaxCompleted == 3

\* a completed criterion of the given type and determination
CompletedCriterion(type, n, determination) ==
    [NewCriterion(type, n, "normal") EXCEPT
        !.determination = determination,
        !.explanation = Some("expert" :> AnswerText["expert"]),
        !.rag_docs = Some(<<>>)]

CompletedLists ==
    UNION { { [i \in 1..n |-> CompletedCriterion(ty[i], i, det[i])] :
                ty \in [1..n -> CriterionTypes], det \in [1..n -> Determinations] }
            : n \in 0..MaxCompleted }

InitRuleBased ==
    /\ pc = "make_final_determination"
    /\ run_config = [split_vectorstore_by_agent |-> FALSE,
                     check_explanations |-> FALSE,
                     final_determination_method |-> "rule_based",
                     persist |-> "file"]
    /\ \E completed \in CompletedLists :
          /\ trial_criteria = completed
          /\ state = [NoState EXCEPT !.completed_criteria = completed,
                                     !.n_total_criteria = Len(completed)]
    /\ vectorstore = FullStore
    /\ graph = build_graph(run_config, vectorstore)
    /\ out_file = None
    /\ redis = EmptyRedis
    /\ llm_usage = [input |-> 0, output |-> 0]
    /\ stage_log = <<>>
    /\ dispatched = {}
    /\ result_writes = <<>>
    /\ fragments = None
    /\ merged = None
    /\ IdleSide

NextRuleBased == Node_final_determination_rule_based

SpecRuleBased == InitRuleBased /\ [][NextRuleBased]_vars

\* ------------------------------------------ the branch-merge reducer on its own
\* the active criterion the experts were routed from, and the fragment each
\* expert's consult_agent returns for it
ReducerTexts == {"meets the criterion", "does not meet the criterion"}

RoutedCriterion ==
    [NewCriterion("inclusion", 1, "normal") EXCEPT
        !.answered_by = Some(<<"cardiology", "generalist", "oncology">>)]

\* the documents a retriever can return: no document twice, at most MaxDocs
DocSeqs ==
    {d \in UNION {[1..n -> Range(DocRank)] : n \in 1..MaxDocs} :
        \A i, j \in DOMAIN d : d[i] = d[j] => i = j}

Fragment(agent_name, text, docs) ==
    [RoutedCriterion EXCEPT !.explanation = Some(agent_name :> text),
                            !.rag_docs = Some(docs)]

\* fold fragments into a channel value through the reducer, left to right
RECURSIVE FoldReducer(_, _)
FoldReducer(current, updates) ==
    IF updates = <<>> THEN current
    ELSE FoldReducer(active_criterion_reducer(current, Head(updates)), Tail(updates))

InitReducer ==
    /\ pc = "reducer"
    /\ fragments \in
          { [a |-> Some(Fragment("cardiology", t[1], d[1])),
             b |-> Some(Fragment("oncology", t[2], d[2])),
             c |-> Some(Fragment("generalist", t[3], d[3]))] :
               t \in [1..3 -> ReducerTexts], d \in [1..3 -> DocSeqs] }
    /\ merged = None
    /\ run_config = [split_vectorstore_by_agent |-> TRUE,
                     check_explanations |-> FALSE,
                     final_determination_method |-> "rule_based",
                     persist |-> "file"]
    /\ trial_criteria = <<>>
    /\ vectorstore = {}
    /\ graph = NoGraph
    /\ state = NoState
    /\ out_file = None
    /\ redis = EmptyRedis
    /\ llm_usage = [input |-> 0, output |-> 0]
    /\ stage_log = <<>>
    /\ dispatched = {}
    /\ result_writes = <<>>
    /\ IdleSide

\* the reducer applied to the fragments in every order and grouping
merge_fragments ==
    /\ pc = "reducer"
    /\ LET cur == Some(RoutedCriterion)
           R(x, y) == active_criterion_reducer(x, y)
           f == fragments
       IN merged' = Some(
            [pair |-> R(f.a, f.b),
             ab |-> FoldReducer(cur, <<f.a, f.b>>),
             ba |-> FoldReducer(cur, <<f.b, f.a>>),
             orders |-> [ord \in Orderings({"a", "b", "c"}) |->
                            FoldReducer(cur, [i \in 1..3 |-> f[ord[i]]])],
             left |-> R(R(f.a, f.b), f.c),
             right |-> R(f.a, R(f.b, f.c))])
    /\ pc' = "reduced"
    /\ UNCHANGED <<side_vars, fragments, run_config, trial_criteria, vectorstore, graph, state,
                   out_file, redis, llm_usage, stage_log, dispatched, result_writes>>

NextReducer == merge_fragments

SpecReducer == InitReducer /\ [][NextReducer]_vars

\* ------------------------------------- concurrent writers of one pair's keys
\* RedisManager.add_ai_output and add_human_output called by several processes
\* for the same (mrn, protocol); every Redis command is atomic on the server,
\* the commands of one call are not
Clients == {"p1", "p2"}
OutputKinds == {"ai", "human"}

\* calls one process makes, one after the other
MaxCalls == 2

count_field(kind) == IF kind = "ai" THEN "ai_count" ELSE "human_count"
outputs_field(kind) == IF kind = "ai" THEN "ai_outputs" ELSE "human_outputs"

\* hset(master_key, mapping={"ai_count": -1, "human_count": -1})
hset_master(r) ==
    [r EXCEPT !.master = Some([ai_count |-> -1, human_count |-> -1])]

\* hincrby(master_key, field, 1): a missing hash or field counts from 0
hincrby(r, field) ==
    LET cur == IF r.master = None THEN [ai_count |-> 0, human_count |-> 0]
               ELSE Val(r.master)
    IN [r EXCEPT !.master = Some([cur EXCEPT ![field] = @ + 1])]

\* set(key, result) on the output key of the given index
set_output(r, kind, index, result) ==
    [r EXCEPT ![outputs_field(kind)] = (index :> result) @@ @]

\* the result a call stores: who wrote it, and in which of its calls
Payload(c, n) == <<c, n>>

\* the pair's keys after one earlier add_ai_output
SeededRedis ==
    set_output(hincrby(hset_master(EmptyRedis), "ai_count"), "ai", 0,
               Payload("earlier", 1))

\* a process entering its first call; got: the <<kind, index>> its calls were
\* given so far
NewCall(kind) ==
    [kind |-> kind, at |-> "exists", index |-> None, call |-> 1, got |-> <<>>]

InitStore ==
    /\ pc = "store"
    /\ redis \in {EmptyRedis, SeededRedis}
    /\ clients \in [Clients -> {NewCall(k) : k \in OutputKinds}]
    /\ batch = None
    /\ retry = None
    /\ routing = None
    /\ ui = None
    /\ process = None
    /\ pregel = None
    /\ call = None
    /\ run_config = [split_vectorstore_by_agent |-> FALSE,
                     check_explanations |-> FALSE,
                     final_determination_method |-> "rule_based",
                     persist |-> "redis"]
    /\ trial_criteria = <<>>
    /\ vectorstore = {}
    /\ graph = NoGraph
    /\ state = NoState
    /\ out_file = None
    /\ llm_usage = [input |-> 0, output |-> 0]
    /\ stage_log = <<>>
    /\ dispatched = {}
    /\ result_writes = <<>>
    /\ fragments = None
    /\ merged = None

store_unchanged ==
    UNCHANGED <<pc, batch, retry, routing, ui, process, pregel, call, run_config, trial_criteria, vectorstore, graph,
                state, out_file, llm_usage, stage_log, dispatched, result_writes,
                reducer_vars>>

\* _initialize_master_key: if not self.client.exists(master_key)
initialize_master_key_exists(c) ==
    /\ clients[c].at = "exists"
    /\ clients' = [clients EXCEPT ![c].at =
                      IF redis.master = None THEN "hset" ELSE "hincrby"]
    /\ UNCHANGED redis
    /\ store_unchanged

\* _initialize_master_key: self.client.hset(master_key, mapping=...)
initialize_master_key_hset(c) ==
    /\ clients[c].at = "hset"
    /\ redis' = hset_master(redis)
    /\ clients' = [clients EXCEPT ![c].at = "hincrby"]
    /\ store_unchanged

\* index = int(self.client.hincrby(master_key, "ai_count" / "human_count", 1))
add_output_hincrby(c) ==
    /\ clients[c].at = "hincrby"
    /\ redis' = hincrby(redis, count_field(clients[c].kind))
    /\ LET index == Val(redis'.master)[count_field(clients[c].kind)]
       IN clients' = [clients EXCEPT
                         ![c].index = Some(index),
                         ![c].got = Append(@, <<clients[c].kind, index>>),
                         ![c].at = "set"]
    /\ store_unchanged

\* self.client.set(output_key, result); return index
add_output_set(c) ==
    /\ clients[c].at = "set"
    /\ redis' = set_output(redis, clients[c].kind, Val(clients[c].index),
                           Payload(c, clients[c].call))
    /\ clients' = [clients EXCEPT ![c].at = "returned"]
    /\ store_unchanged

\* the process calls add_ai_output or add_human_output again
next_call(c) ==
    /\ clients[c].at = "returned"
    /\ clients[c].call < MaxCalls
    /\ \E k \in OutputKinds :
          clients' = [clients EXCEPT ![c].kind = k, ![c].at = "exists",
                                     ![c].index = None, ![c].call = @ + 1]
    /\ UNCHANGED redis
    /\ store_unchanged

NextStore ==
    \E c \in Clients :
        \/ initialize_master_key_exists(c)
        \/ initialize_master_key_hset(c)
        \/ add_output_hincrby(c)
        \/ add_output_set(c)
        \/ next_call(c)

SpecStore == InitStore /\ [][NextStore]_vars

\* ------------------------------------------------------------ run_experiment
\* the loop of run_experiment over the dataset rows; each row's run goes
\* through run_with_timeout, whose SIGALRM handler raises TimeoutException
\* (a subclass of Exception) at whatever point the main thread has reached
MaxRows == 2
Rows == 1..MaxRows

\* how often the batch is started with the same dataset and epoch
MaxPasses == 2

\* run_experiment's epoch argument
Epochs == {None, Some(0), Some(1)}

\* the code between signal.alarm(timeout) and signal.alarm(0): inside the try
\* of run_with_timeout
InsideRun ==
    {"build_graph", "multi", "invoke", "save_results", "exists", "hset",
     "hincrby", "set", "cancel"}

\* the points of the run where a collaborator can raise
RowRaises ==
    {"build_graph", "invoke", "save_results", "exists", "hset", "hincrby", "set"}

InitExperiment ==
    /\ pc = "experiment"
    /\ run_config \in {c \in RunConfigs : /\ c.persist \in {"redis", "experiment"}
                                         /\ ~c.check_explanations
                                         /\ c.final_determination_method = "rule_based"}
    /\ vectorstore \in IF run_config.split_vectorstore_by_agent
                       THEN {{}, FullStore} ELSE {FullStore}
    /\ batch \in [row : {1}, at : {"row"}, alarm : {None}, epoch : Epochs,
                  store : [Rows -> {EmptyRedis, SeededRedis}],
                  outcome : {[r \in Rows |-> "unvisited"]},
                  fired : {{}},
                  pass : {1},
                  persisted : {[r \in Rows |-> 0]}]
    /\ graph = NoGraph
    /\ clients = <<>>
    /\ retry = None
    /\ routing = None
    /\ ui = None
    /\ process = None
    /\ pregel = None
    /\ call = None
    /\ trial_criteria = <<>>
    /\ state = NoState
    /\ out_file = None
    /\ redis = EmptyRedis
    /\ llm_usage = [input |-> 0, output |-> 0]
    /\ stage_log = <<>>
    /\ dispatched = {}
    /\ result_writes = <<>>
    /\ fragments = None
    /\ merged = None

experiment_unchanged ==
    UNCHANGED <<pc, clients, retry, routing, ui, process, pregel, call, run_config, trial_criteria, vectorstore, state,
                out_file, redis, llm_usage, stage_log, dispatched, result_writes,
                reducer_vars>>

\* the loop goes on with the next row
NextRow(outcome) ==
    [batch EXCEPT !.outcome[batch.row] = outcome, !.row = @ + 1, !.at = "row"]

\* for index, row in pbar, and the epoch rules: skip a row whose output of this
\* epoch exists, or whose output of the previous epoch is missing
loop_row ==
    /\ batch.at = "row"
    /\ batch.row <= MaxRows
    /\ LET outs == DOMAIN batch.store[batch.row].ai_outputs
           epoch == batch.epoch
           skip == /\ epoch # None
                   /\ \/ Val(epoch) \in outs
                      \/ Val(epoch) # 0 /\ (Val(epoch) - 1) \notin outs
       IN batch' = IF skip THEN NextRow("skipped")
                   ELSE [batch EXCEPT !.outcome[batch.row] = "started",
                                      !.at = "alarm"]
    /\ UNCHANGED graph
    /\ experiment_unchanged

\* the dataset is exhausted
loop_ends ==
    /\ batch.at = "row"
    /\ batch.row > MaxRows
    /\ batch' = [batch EXCEPT !.at = "finished"]
    /\ UNCHANGED graph
    /\ experiment_unchanged

\* redis_manager.client.exists of the epoch rules raises
epoch_check_raises ==
    /\ batch.at = "row"
    /\ batch.row <= MaxRows
    /\ batch.epoch # None
    /\ batch' = [batch EXCEPT !.at = "escaped"]
    /\ UNCHANGED graph
    /\ experiment_unchanged

\* run_with_timeout: signal.alarm(timeout); a pending alarm is replaced
run_with_timeout_alarm ==
    /\ batch.at = "alarm"
    /\ batch' = [batch EXCEPT !.alarm = Some(batch.row), !.at = "build_graph"]
    /\ UNCHANGED graph
    /\ experiment_unchanged

\* build_graph: into the try around the branching graph, or the single graph
build_graph_enter ==
    /\ batch.at = "build_graph"
    /\ IF run_config.split_vectorstore_by_agent
       THEN /\ batch' = [batch EXCEPT !.at = "multi"]
            /\ UNCHANGED graph
       ELSE /\ batch' = [batch EXCEPT !.at = "invoke"]
            /\ graph' = build_graph(run_config, vectorstore)
    /\ experiment_unchanged

\* _build_graph_multi_expert_branching returns, or its ValueError is caught
\* and the single graph is built
build_graph_multi ==
    /\ batch.at = "multi"
    /\ batch' = [batch EXCEPT !.at = "invoke"]
    /\ graph' = build_graph(run_config, vectorstore)
    /\ experiment_unchanged

\* graph.invoke up to the save_results node
graph_invoke ==
    /\ batch.at = "invoke"
    /\ batch' = [batch EXCEPT !.at = "save_results"]
    /\ UNCHANGED graph
    /\ experiment_unchanged

\* save_results: add_experiment_result's rpush, or into add_ai_output
row_save_results ==
    /\ batch.at = "save_results"
    /\ batch' = IF run_config.persist = "experiment"
                THEN [batch EXCEPT !.store[batch.row].experiment_results =
                                       Append(@, Payload("row", batch.row)),
                                   !.persisted[batch.row] = @ + 1,
                                   !.at = "cancel"]
                ELSE [batch EXCEPT !.at = "exists"]
    /\ UNCHANGED graph
    /\ experiment_unchanged

\* add_ai_output, command by command
row_add_ai_output ==
    /\ batch.at \in {"exists", "hset", "hincrby", "set"}
    /\ LET r == batch.store[batch.row]
       IN batch' =
            CASE batch.at = "exists" ->
                   [batch EXCEPT !.at = IF r.master = None THEN "hset" ELSE "hincrby"]
              [] batch.at = "hset" ->
                   [batch EXCEPT !.store[batch.row] = hset_master(r), !.at = "hincrby"]
              [] batch.at = "hincrby" ->
                   [batch EXCEPT !.store[batch.row] = hincrby(r, "ai_count"),
                                 !.at = "set"]
              [] batch.at = "set" ->
                   [batch EXCEPT !.store[batch.row] =
                                    set_output(r, "ai", Val(r.master).ai_count,
                                               Payload("row", batch.row)),
                                 !.persisted[batch.row] = @ + 1,
                                 !.at = "cancel"]
    /\ UNCHANGED graph
    /\ experiment_unchanged

\* run_with_timeout: signal.alarm(0); return result
run_with_timeout_returns ==
    /\ batch.at = "cancel"
    /\ batch' = [NextRow("result") EXCEPT !.alarm = None]
    /\ UNCHANGED graph
    /\ experiment_unchanged

\* the run raises: the exception leaves run_with_timeout, whose alarm stays set
row_raises ==
    /\ batch.at \in RowRaises
    /\ batch' = [batch EXCEPT !.at = "except"]
    /\ UNCHANGED graph
    /\ experiment_unchanged

\* except Exception of run_experiment: log and continue
except_continue ==
    /\ batch.at = "except"
    /\ batch' = NextRow("raised")
    /\ UNCHANGED graph
    /\ experiment_unchanged

\* the alarm goes off: timeout_handler raises TimeoutException where the main
\* thread is. Inside build_graph's try it is caught by except Exception and the
\* run goes on with the single graph; elsewhere inside run_with_timeout's try it
\* is caught there and None is returned; outside of it nothing catches it
timeout_handler ==
    /\ batch.alarm # None
    /\ batch.at \in InsideRun \cup {"row", "alarm", "except"}
    /\ LET fired == [batch EXCEPT !.alarm = None,
                                  !.fired = @ \cup {Val(batch.alarm)}]
       IN CASE batch.at = "multi" ->
                 /\ batch' = [fired EXCEPT !.at = "invoke"]
                 /\ graph' = [kind |-> "single",
                              agents |-> ("expert" :> {d.id : d \in vectorstore})]
            [] batch.at \in InsideRun \ {"multi"} ->
                 /\ batch' = [fired EXCEPT !.outcome[batch.row] = "None",
                                           !.row = @ + 1, !.at = "row"]
                 /\ UNCHANGED graph
            [] OTHER ->
                 /\ batch' = [fired EXCEPT !.at = "escaped"]
                 /\ UNCHANGED graph
    /\ experiment_unchanged

\* main: run_experiment is started again on the same dataset with the same
\* epoch, in a new process
run_experiment_again ==
    /\ batch.at \in {"finished", "escaped"}
    /\ batch.pass < MaxPasses
    /\ batch' = [batch EXCEPT !.pass = @ + 1, !.row = 1, !.at = "row",
                              !.alarm = None, !.fired = {},
                              !.outcome = [r \in Rows |-> "unvisited"]]
    /\ UNCHANGED graph
    /\ experiment_unchanged

NextExperiment ==
    \/ run_experiment_again
    \/ loop_row
    \/ loop_ends
    \/ epoch_check_raises
    \/ run_with_timeout_alarm
    \/ build_graph_enter
    \/ build_graph_multi
    \/ graph_invoke
    \/ row_save_results
    \/ row_add_ai_output
    \/ run_with_timeout_returns
    \/ row_raises
    \/ except_continue
    \/ timeout_handler

SpecExperiment == InitExperiment /\ [][NextExperiment]_vars

\* ---------------------------------------- retry_with_exponential_backoff
\* one call of a function wrapped by retry_with_exponential_backoff, as
\* AzureClient.chat_completions_parse wraps the completion call with
\* run_config.max_retries and run_config.base_wait
MaxRetries == 4
MaxBaseWait == 2

\* how one invocation of the wrapped function ends
CallOutcomes == {"returns", "RateLimitError", "APIError"}

\* wait_time with a constant step in place of the doubling
wait_time_linear(base_wait, attempt) == base_wait * attempt

\* wait_time = base_wait * (2 ** (attempt - 1))
wait_time(base_wait, attempt) == base_wait * (2 ^ (attempt - 1))

InitRetry ==
    /\ pc = "retry"
    /\ retry \in [max_retries : 0..MaxRetries, base_wait : 1..MaxBaseWait,
                  attempt : {0}, at : {"call"}, calls : {<<>>}, waits : {<<>>},
                  result : {None}, raised : {None}]
    /\ clients = <<>>
    /\ batch = None
    /\ routing = None
    /\ ui = None
    /\ process = None
    /\ pregel = None
    /\ call = None
    /\ run_config = [split_vectorstore_by_agent |-> FALSE,
                     check_explanations |-> FALSE,
                     final_determination_method |-> "rule_based",
                     persist |-> "file"]
    /\ trial_criteria = <<>>
    /\ vectorstore = {}
    /\ graph = NoGraph
    /\ state = NoState
    /\ out_file = None
    /\ redis = EmptyRedis
    /\ llm_usage = [input |-> 0, output |-> 0]
    /\ stage_log = <<>>
    /\ dispatched = {}
    /\ result_writes = <<>>
    /\ fragments = None
    /\ merged = None

retry_unchanged ==
    UNCHANGED <<pc, clients, batch, routing, ui, process, pregel, call, run_config, trial_criteria, vectorstore, graph,
                state, out_file, redis, llm_usage, stage_log, dispatched,
                result_writes, reducer_vars>>

\* the wrapper with "except Exception" in place of the rate-limit clause: every
\* error is waited out and retried
wrapper_call_catches_all ==
    /\ retry.at = "call"
    /\ retry.attempt <= retry.max_retries
    /\ \E outcome \in CallOutcomes :
          LET called == [retry EXCEPT !.calls = Append(@, outcome)]
              n == Len(called.calls)
              attempt == retry.attempt + 1
          IN retry' =
               IF outcome = "returns"
               THEN [called EXCEPT !.at = "returned",
                                   !.result = Some(<<"response", n>>)]
               ELSE IF attempt > retry.max_retries
                    THEN [called EXCEPT !.attempt = attempt, !.at = "raised",
                                        !.raised = Some(<<outcome, n>>)]
                    ELSE [called EXCEPT
                            !.attempt = attempt,
                            !.waits = Append(@, wait_time(retry.base_wait, attempt)),
                            !.at = "sleep"]
    /\ retry_unchanged

\* while attempt <= max_retries: try: return func(*args, **kwargs); the
\* except clause for openai.RateLimitError up to time.sleep
wrapper_call ==
    /\ retry.at = "call"
    /\ retry.attempt <= retry.max_retries
    /\ \E outcome \in CallOutcomes :
          LET called == [retry EXCEPT !.calls = Append(@, outcome)]
              n == Len(called.calls)
              attempt == retry.attempt + 1
          IN retry' =
               CASE outcome = "returns" ->
                      [called EXCEPT !.at = "returned",
                                     !.result = Some(<<"response", n>>)]
                 [] outcome = "APIError" ->
                      [called EXCEPT !.at = "raised", !.raised = Some(<<"APIError", n>>)]
                 [] outcome = "RateLimitError" ->
                      IF attempt > retry.max_retries
                      THEN [called EXCEPT !.attempt = attempt, !.at = "raised",
                                          !.raised = Some(<<"RateLimitError", n>>)]
                      ELSE [called EXCEPT
                              !.attempt = attempt,
                              !.waits = Append(@, wait_time(retry.base_wait, attempt)),
                              !.at = "sleep"]
    /\ retry_unchanged

\* time.sleep(wait_time) is over
wrapper_sleep ==
    /\ retry.at = "sleep"
    /\ retry' = [retry EXCEPT !.at = "call"]
    /\ retry_unchanged

NextRetry == wrapper_call \/ wrapper_sleep

SpecRetry == InitRetry /\ [][NextRetry]_vars

\* ------------------------------------------------------ the router on its own
\* consult_expert and the fan-out applied to any response of the router, for
\* every set of expert choices a patient's documents can give
RouterDocs ==
    {[id |-> 1, matches |-> {"oncology"}],
     [id |-> 2, matches |-> {"cardiology"}],
     [id |-> 3, matches |-> {}]}

RouterStores == (SUBSET RouterDocs) \ {{}}

InitRouter ==
    /\ pc = "consult_expert"
    /\ run_config = [split_vectorstore_by_agent |-> TRUE,
                     check_explanations |-> FALSE,
                     final_determination_method |-> "rule_based",
                     persist |-> "file"]
    /\ vectorstore \in RouterStores
    /\ graph = build_graph(run_config, vectorstore)
    /\ routing \in {Some(r) : r \in RouterResponses(DOMAIN graph.agents)}
    /\ ui = None
    /\ process = None
    /\ pregel = None
    /\ call = None
    /\ trial_criteria = <<NewCriterion("inclusion", 1, "normal")>>
    /\ state = initial_state(trial_criteria)
    /\ clients = <<>>
    /\ batch = None
    /\ retry = None
    /\ out_file = None
    /\ redis = EmptyRedis
    /\ llm_usage = [input |-> 0, output |-> 0]
    /\ stage_log = <<>>
    /\ dispatched = {}
    /\ result_writes = <<>>
    /\ fragments = None
    /\ merged = None

\* the consult_expert node on the response at hand
Node_consult_expert_response ==
    /\ pc = "consult_expert"
    /\ routing # None
    /\ state' = consult_expert(state, Val(routing), Usage.router)
    /\ trial_criteria' = answered_in_place(trial_criteria, state, Val(routing))
    /\ Called(Usage.router)
    /\ Log("consult_expert")
    /\ pc' = "experts"
    /\ UNCHANGED <<reducer_vars, side_vars, run_config, vectorstore,
                   graph, out_file, redis, dispatched, result_writes>>

NextRouter == Node_consult_expert_response \/ Node_experts

SpecRouter == InitRouter /\ [][NextRouter]_vars

\* ------------------------------------------------ the persist stage on its own
\* save_results applied to any order of completed criteria
MaxSaved == 3

\* the criteria of a trial with three inclusion and two exclusion criteria
SavedCriteria ==
    {CompletedCriterion("inclusion", n, "met") : n \in 1..3}
        \cup {CompletedCriterion("exclusion", n, "not met") : n \in 1..2}

\* every list of up to MaxSaved of them, in every order
SavedLists ==
    UNION {Orderings(S) : S \in {T \in SUBSET SavedCriteria : Cardinality(T) <= MaxSaved}}

InitSave ==
    /\ pc = "save_results"
    /\ run_config \in {c \in RunConfigs : /\ ~c.split_vectorstore_by_agent
                                         /\ ~c.check_explanations
                                         /\ c.final_determination_method = "rule_based"}
    /\ \E completed \in SavedLists :
          /\ trial_criteria = completed
          /\ state = [NoState EXCEPT !.completed_criteria = completed,
                                     !.n_total_criteria = Len(completed),
                                     !.final_determination = "eligible"]
    /\ vectorstore = FullStore
    /\ graph = build_graph(run_config, vectorstore)
    /\ out_file = None
    /\ redis = EmptyRedis
    /\ llm_usage = [input |-> 0, output |-> 0]
    /\ stage_log = <<>>
    /\ dispatched = {}
    /\ result_writes = <<>>
    /\ fragments = None
    /\ merged = None
    /\ IdleSide

NextSave ==
    \/ Node_save_results
    \/ add_ai_output_hincrby
    \/ add_ai_output_set
    \/ write_out_file

SpecSave == InitSave /\ [][NextSave]_vars

\* --------------------------------------------- the verdict on the review page
\* trialmatcher_ui.py: the page loads the pair's persisted result and, on every
\* rerun of the script, applies final_determination_rule_based to a copy of it
MaxReruns == 2

\* final_determination_rule_based called as a plain function: the object it
\* was handed, with final_determination set
rule_based_call(s) ==
    [s EXCEPT !.final_determination = rule_based_verdict(s.completed_criteria)]

\* get_updated_results_obj without human feedback: a deep copy of the loaded
\* result with answered_by set to "AI"
get_updated_results_obj(results_original) ==
    [results_original EXCEPT !.completed_criteria =
        [i \in DOMAIN @ |-> [@[i] EXCEPT !.answered_by = Some("AI")]]]

\* what load_results reads: the first experiment result, or the output of the
\* pair's latest index
ai_output ==
    IF run_config.persist = "experiment"
    THEN IF redis.experiment_results = <<>> THEN None
         ELSE Some(redis.experiment_results[1])
    ELSE IF redis.master = None \/ Val(redis.master).ai_count < 0 THEN None
    ELSE IF Val(redis.master).ai_count \in DOMAIN redis.ai_outputs
         THEN Some(redis.ai_outputs[Val(redis.master).ai_count])
         ELSE None

InitReevaluate ==
    /\ pc = "make_final_determination"
    /\ run_config \in {c \in RunConfigs : /\ ~c.split_vectorstore_by_agent
                                         /\ ~c.check_explanations
                                         /\ c.final_determination_method = "rule_based"
                                         /\ c.persist \in {"redis", "experiment"}}
    /\ \E completed \in CompletedLists :
          /\ trial_criteria = completed
          /\ state = [NoState EXCEPT !.completed_criteria = completed,
                                     !.n_total_criteria = Len(completed)]
    /\ vectorstore = FullStore
    /\ graph = build_graph(run_config, vectorstore)
    /\ out_file = None
    /\ redis = EmptyRedis
    /\ llm_usage = [input |-> 0, output |-> 0]
    /\ stage_log = <<>>
    /\ dispatched = {}
    /\ result_writes = <<>>
    /\ fragments = None
    /\ merged = None
    /\ IdleSide

\* load_results: TrialMatcherState.model_validate_json(ai_output)
load_results ==
    /\ pc = "END"
    /\ ui = None
    /\ ai_output # None
    /\ ui' = [results_obj |-> Val(ai_output), results |-> None, reruns |-> 0,
              error |-> None]
    /\ UNCHANGED <<pc, clients, batch, retry, routing, process, pregel, call, run_config,
                   trial_criteria,
                   vectorstore, graph, state, out_file, redis, llm_usage, stage_log,
                   dispatched, result_writes, reducer_vars>>

\* one run of the page script: results = get_updated_results_obj();
\* results = final_determination_rule_based(results)
update_final_determination ==
    /\ ui # None
    /\ ui.reruns < MaxReruns
    /\ LET results == get_updated_results_obj(ui.results_obj)
       IN ui' = IF criteria_found(results) = results.n_total_criteria
                THEN [ui EXCEPT !.results = Some(rule_based_call(results)),
                                !.reruns = @ + 1]
                ELSE [ui EXCEPT !.results = None,
                                !.error = Some("AssertionError"),
                                !.reruns = @ + 1]
    /\ UNCHANGED <<pc, clients, batch, retry, routing, process, pregel, call, run_config,
                   trial_criteria,
                   vectorstore, graph, state, out_file, redis, llm_usage, stage_log,
                   dispatched, result_writes, reducer_vars>>

NextReevaluate ==
    \/ Node_final_determination_rule_based
    \/ Node_save_results
    \/ add_ai_output_hincrby
    \/ add_ai_output_set
    \/ load_results
    \/ update_final_determination

SpecReevaluate == InitReevaluate /\ [][NextReevaluate]_vars

\* ------------------------------------- several runs of a trial in one process
\* run_langgraph_trial_matcher called again and again by one process (the loop
\* of run_experiment over the rows of a trial): the Criterion objects of
\* all_trial_criteria are built once, at import
MaxRuns == 2

ProcessConfigs ==
    {c \in RunConfigs : /\ ~c.check_explanations
                        /\ c.final_determination_method = "rule_based"
                        /\ c.persist = "redis"}

InitProcess ==
    /\ pc = "start"
    /\ run_config \in ProcessConfigs
    /\ trial_criteria \in all_trial_criteria
    /\ vectorstore \in IF run_config.split_vectorstore_by_agent
                       THEN VectorStores ELSE {FullStore}
    /\ graph = NoGraph
    /\ state = NoState
    /\ out_file = None
    /\ redis = EmptyRedis
    /\ llm_usage = [input |-> 0, output |-> 0]
    /\ stage_log = <<>>
    /\ dispatched = {}
    /\ result_writes = <<>>
    /\ fragments = None
    /\ merged = None
    /\ clients = <<>>
    /\ batch = None
    /\ retry = None
    /\ routing = None
    /\ ui = None
    /\ process = [runs |-> 1]
    /\ pregel = None
    /\ call = None

\* the next call, for another patient of the same trial, with its own
\* run_config, documents and Redis keys; the trial's Criterion objects are the
\* ones the earlier calls left
next_run ==
    /\ process # None
    /\ process.runs < MaxRuns
    /\ pc \in {"END", "aborted"}
    /\ process' = [process EXCEPT !.runs = @ + 1]
    /\ pc' = "start"
    /\ run_config' \in ProcessConfigs
    /\ vectorstore' \in IF run_config'.split_vectorstore_by_agent
                        THEN VectorStores ELSE {FullStore}
    /\ graph' = NoGraph
    /\ state' = NoState
    /\ redis' = EmptyRedis
    /\ llm_usage' = [input |-> 0, output |-> 0]
    /\ stage_log' = <<>>
    /\ dispatched' = {}
    /\ result_writes' = <<>>
    /\ UNCHANGED <<trial_criteria, out_file, reducer_vars, clients, batch, retry,
                   routing, ui, pregel, call>>

NextProcess ==
    \/ run_langgraph_trial_matcher
    \/ Node_trial_coordinator
    \/ Node_expert
    \/ Node_consult_expert
    \/ Node_experts
    \/ Node_principal_investigator
    \/ Node_update_current_criterion
    \/ Node_final_determination_rule_based
    \/ Node_save_results
    \/ add_ai_output_hincrby
    \/ add_ai_output_set
    \/ next_run

SpecProcess == InitProcess /\ [][NextProcess]_vars

\* ---------------------------------------------- the step limit of graph.invoke
\* graph.invoke(initial_state, {"recursion_limit": 500}) on a trial of normal
\* criteria, followed by its supersteps only: which node runs, how many criteria
\* are completed, whether a verdict is set and whether the result is stored.
\* One node, or the experts of one fan-out, is one superstep; when the limit is
\* used up before the graph reaches END, invoke raises GraphRecursionError
recursion_limit == 500

\* criteria of the longest trial; four supersteps a criterion already pass
\* the limit
MaxTrialLen == 130

\* the loop never running out of steps
out_of_steps_never(lp) == FALSE

\* the loop's check before a superstep
out_of_steps(lp) == lp.step >= recursion_limit

superstep(lp, node) == [lp EXCEPT !.step = @ + 1, !.at = node]

\* supersteps from START to END: per criterion trial_coordinator, the router
\* (branching graph), the expert(s), principal_investigator, the check
\* (when configured) and update_current_criterion; then the verdict and the save
StepsNeeded(lp) ==
    lp.n_total_criteria * (4 + (IF lp.multi THEN 1 ELSE 0)
                             + (IF lp.check_explanations THEN 1 ELSE 0)) + 2

InitPregel ==
    /\ pc = "invoke"
    /\ pregel \in [n_total_criteria : 1..MaxTrialLen,
                   multi : BOOLEAN,
                   check_explanations : BOOLEAN,
                   completed : {0},
                   at : {"trial_coordinator"},
                   step : {0},
                   final_over : {None},
                   persisted : {FALSE},
                   status : {"pending"}]
    /\ run_config = [split_vectorstore_by_agent |-> pregel.multi,
                     check_explanations |-> pregel.check_explanations,
                     final_determination_method |-> "rule_based",
                     persist |-> "redis"]
    /\ trial_criteria = <<>>
    /\ vectorstore = {}
    /\ graph = NoGraph
    /\ state = NoState
    /\ out_file = None
    /\ redis = EmptyRedis
    /\ llm_usage = [input |-> 0, output |-> 0]
    /\ stage_log = <<>>
    /\ dispatched = {}
    /\ result_writes = <<>>
    /\ fragments = None
    /\ merged = None
    /\ clients = <<>>
    /\ batch = None
    /\ retry = None
    /\ routing = None
    /\ ui = None
    /\ process = None
    /\ call = None

pregel_unchanged ==
    UNCHANGED <<pc, clients, batch, retry, routing, ui, process, call, run_config,
                trial_criteria, vectorstore, graph, state, out_file, redis,
                llm_usage, stage_log, dispatched, result_writes, reducer_vars>>

Runs(node) ==
    /\ pregel # None
    /\ pregel.status = "pending"
    /\ pregel.at = node
    /\ ~out_of_steps(pregel)

pregel_trial_coordinator ==
    /\ Runs("trial_coordinator")
    /\ pregel' = superstep(pregel, IF pregel.multi THEN "consult_expert" ELSE "expert")
    /\ pregel_unchanged

pregel_consult_expert ==
    /\ Runs("consult_expert")
    /\ pregel' = superstep(pregel, "experts")
    /\ pregel_unchanged

\* the expert of the single graph, or the chosen experts side by side
pregel_experts ==
    /\ Runs("expert") \/ Runs("experts")
    /\ pregel' = superstep(pregel, "principal_investigator")
    /\ pregel_unchanged

pregel_principal_investigator ==
    /\ Runs("principal_investigator")
    /\ pregel' = superstep(pregel, IF pregel.check_explanations
                                   THEN "check_explanation"
                                   ELSE "update_current_criterion")
    /\ pregel_unchanged

pregel_check_explanation ==
    /\ Runs("check_explanation")
    /\ pregel' = superstep(pregel, "update_current_criterion")
    /\ pregel_unchanged

\* update_current_criterion and the check_if_done edge
pregel_update_current_criterion ==
    /\ Runs("update_current_criterion")
    /\ pregel' = [superstep(pregel,
                     IF pregel.completed + 1 = pregel.n_total_criteria
                     THEN "make_final_determination" ELSE "trial_coordinator")
                  EXCEPT !.completed = @ + 1]
    /\ pregel_unchanged

\* the verdict is computed over the criteria completed so far
pregel_make_final_determination ==
    /\ Runs("make_final_determination")
    /\ pregel' = [superstep(pregel, "save_results")
                  EXCEPT !.final_over = Some(pregel.completed)]
    /\ pregel_unchanged

pregel_save_results ==
    /\ Runs("save_results")
    /\ pregel' = [superstep(pregel, "END")
                  EXCEPT !.persisted = TRUE, !.status = "done"]
    /\ pregel_unchanged

\* the limit is used up and a node is still to run: GraphRecursionError leaves
\* graph.invoke and run_langgraph_trial_matcher
graph_recursion_error ==
    /\ pregel # None
    /\ pregel.status = "pending"
    /\ out_of_steps(pregel)
    /\ pregel' = [pregel EXCEPT !.status = "out_of_steps"]
    /\ pregel_unchanged

NextPregel ==
    \/ pregel_trial_coordinator
    \/ pregel_consult_expert
    \/ pregel_experts
    \/ pregel_principal_investigator
    \/ pregel_check_explanation
    \/ pregel_update_current_criterion
    \/ pregel_make_final_determination
    \/ pregel_save_results
    \/ graph_recursion_error

SpecPregel == InitPregel /\ [][NextPregel]_vars

\* ------------------------------------ the reducer on a change of the criterion
\* active_criterion_reducer(current, update) for a current criterion in any
\* state of its processing and an update that is None or a criterion, of the
\* same id or another
MaxIdNumber == 2

ChannelCriteria ==
    { [NewCriterion(t, n, "normal") EXCEPT !.determination = det,
                                            !.explanation = ev[1],
                                            !.rag_docs = ev[2]] :
        t \in CriterionTypes, n \in 1..MaxIdNumber,
        det \in {"None", "met"},
        ev \in {<<None, None>>,
                <<Some("cardiology" :> "meets the criterion"), Some(<<1>>)>>,
                <<Some("oncology" :> "does not meet the criterion"), Some(<<2>>)>>} }

InitReplace ==
    /\ pc = "replace"
    /\ fragments \in [current : {Some(c) : c \in ChannelCriteria},
                      update : {None} \cup {Some(c) : c \in ChannelCriteria}]
    /\ merged = None
    /\ run_config = [split_vectorstore_by_agent |-> TRUE,
                     check_explanations |-> FALSE,
                     final_determination_method |-> "rule_based",
                     persist |-> "file"]
    /\ trial_criteria = <<>>
    /\ vectorstore = {}
    /\ graph = NoGraph
    /\ state = NoState
    /\ out_file = None
    /\ redis = EmptyRedis
    /\ llm_usage = [input |-> 0, output |-> 0]
    /\ stage_log = <<>>
    /\ dispatched = {}
    /\ result_writes = <<>>
    /\ IdleSide

\* the channel takes the update
write_active_criterion ==
    /\ pc = "replace"
    /\ merged' = Some([result |->
                         active_criterion_reducer(fragments.current, fragments.update)])
    /\ pc' = "replaced"
    /\ UNCHANGED <<side_vars, fragments, run_config, trial_criteria, vectorstore, graph, state,
                   out_file, redis, llm_usage, stage_log, dispatched, result_writes>>

NextReplace == write_active_criterion

SpecReplace == InitReplace /\ [][NextReplace]_vars

\* ------------------------------------- the count assertion of the rule-based
\* final_determination_rule_based(state) on a state whose buckets and
\* n_total_criteria are any: criteria completed, waiting and active, counted or
\* not by n_total_criteria
MaxWaiting == 2

MaxTotal == 4

WaitingLists ==
    {[i \in 1..n |-> NewCriterion("exclusion", i, "normal")] : n \in 0..MaxWaiting}

InitCount ==
    /\ pc = "make_final_determination"
    /\ run_config = [split_vectorstore_by_agent |-> FALSE,
                     check_explanations |-> FALSE,
                     final_determination_method |-> "rule_based",
                     persist |-> "file"]
    /\ \E completed \in {c \in CompletedLists : Len(c) <= 2},
          uncompleted \in WaitingLists,
          active \in {None, Some(NewCriterion("inclusion", MaxCompleted + 1, "normal"))},
          n \in 0..MaxTotal :
          /\ trial_criteria = completed
          /\ state = [NoState EXCEPT !.completed_criteria = completed,
                                     !.uncompleted_criteria = uncompleted,
                                     !.active_criterion = active,
                                     !.n_total_criteria = n]
    /\ vectorstore = FullStore
    /\ graph = build_graph(run_config, vectorstore)
    /\ out_file = None
    /\ redis = EmptyRedis
    /\ llm_usage = [input |-> 0, output |-> 0]
    /\ stage_log = <<>>
    /\ dispatched = {}
    /\ result_writes = <<>>
    /\ fragments = None
    /\ merged = None
    /\ IdleSide

NextCount == Node_final_determination_rule_based

SpecCount == InitCount /\ [][NextCount]_vars

\* ------------------------------------------ the split of a patient's documents
\* split_vectorstore_by_agent(vectorstore, agent_names_keywords) on document
\* types and keywords spelled out: a type and a keyword are words of letters,
\* and re.search finds a keyword anywhere in a type
MaxSplitDocs == 2

MaxKeywords == 2

\* metadata["type"] of a document
DocTypes == {<<"c">>, <<"o">>, <<"c", "o">>, <<"x">>}

Keywords == {<<"c">>, <<"o">>, <<"c", "o">>}

KeywordLists == UNION {[1..n -> Keywords] : n \in 0..MaxKeywords}

\* run_config.split_vectorstore_by_agent: a non-empty dict {agent_name: [keywords]}
RoutingTables ==
    UNION {[names -> KeywordLists] :
              names \in (SUBSET {"cardiology", "oncology", "generalist"}) \ {{}}}

\* the documents of a vectorstore: at most MaxSplitDocs, each with its type
TypedStores ==
    UNION {{ {[id |-> i, type |-> ty[i]] : i \in ids} : ty \in [ids -> DocTypes] }
              : ids \in SUBSET (1..MaxSplitDocs)}

\* the keyword found somewhere in the text
Contains(text, kw) ==
    \E i \in 0..(Len(text) - Len(kw)) : SubSeq(text, i + 1, i + Len(kw)) = kw

\* re.search with the whole type required to be the keyword
search_whole(kws, type) == kws = {} \/ type \in kws

\* re.search("|".join(kws), type): the pattern of no keyword at all is empty
\* and is found in every type
search(kws, type) == kws = {} \/ \E kw \in kws : Contains(type, kw)

\* agent_names_vectorstores: agent name -> ids of its documents; an agent
\* without documents gets no entry, and the documents found by no keyword are
\* stored under "generalist" last
agent_names_vectorstores(store, agent_names_keywords) ==
    LET agent_docs(a) ==
            {d \in store : search(Range(agent_names_keywords[a]), d.type)}
        all_agent_kw ==
            UNION {Range(agent_names_keywords[a]) : a \in DOMAIN agent_names_keywords}
        generalist_docs == {d \in store : ~search(all_agent_kw, d.type)}
        names == {a \in DOMAIN agent_names_keywords : agent_docs(a) # {}}
                    \cup (IF generalist_docs # {} THEN {"generalist"} ELSE {})
    IN [a \in names |->
           IF a = "generalist" /\ generalist_docs # {}
           THEN {d.id : d \in generalist_docs}
           ELSE {d.id : d \in agent_docs(a)}]

InitSplit ==
    /\ pc = "split"
    /\ call \in [vectorstore : TypedStores,
                 agent_names_keywords : RoutingTables,
                 result : {None}]
    /\ run_config = [split_vectorstore_by_agent |-> TRUE,
                     check_explanations |-> FALSE,
                     final_determination_method |-> "rule_based",
                     persist |-> "file"]
    /\ trial_criteria = <<>>
    /\ vectorstore = {}
    /\ graph = NoGraph
    /\ state = NoState
    /\ out_file = None
    /\ redis = EmptyRedis
    /\ llm_usage = [input |-> 0, output |-> 0]
    /\ stage_log = <<>>
    /\ dispatched = {}
    /\ result_writes = <<>>
    /\ fragments = None
    /\ merged = None
    /\ clients = <<>>
    /\ batch = None
    /\ retry = None
    /\ routing = None
    /\ ui = None
    /\ process = None
    /\ pregel = None

call_unchanged ==
    UNCHANGED <<clients, batch, retry, routing, ui, process, pregel, run_config,
                trial_criteria, vectorstore, graph, state, out_file, redis,
                llm_usage, stage_log, dispatched, result_writes, reducer_vars>>

split_vectorstore_call ==
    /\ pc = "split"
    /\ call' = [call EXCEPT !.result =
                   Some(agent_names_vectorstores(call.vectorstore,
                                                 call.agent_names_keywords))]
    /\ pc' = "split done"
    /\ call_unchanged

NextSplit == split_vectorstore_call

SpecSplit == InitSplit /\ [][NextSplit]_vars
\* ---------------------------------------- the latest pair of one pair's keys
\* RedisManager.add_ai_output, add_human_output and get_most_recent_outputs
\* called one after the other for one (mrn, protocol)
MaxOps == 5

\* the index of the pair's latest AI output, -1 when there is none
latest_ai_index(r) ==
    IF r.master = None THEN -1 ELSE Val(r.master).ai_count

\* add_ai_output / add_human_output as one call: _initialize_master_key,
\* hincrby on the kind's counter, set on the key of the returned index
add_output(r, kind, result) ==
    LET initialized == IF r.master = None THEN hset_master(r) ELSE r
        counted == hincrby(initialized, count_field(kind))
        index == Val(counted.master)[count_field(kind)]
    IN set_output(counted, kind, index, result)

\* get_most_recent_outputs: (None, None) without the master key or with
\* ai_count < 0, else the values under the AI key and the human key of ai_count
get_most_recent_outputs(r) ==
    IF r.master = None THEN <<None, None>>
    ELSE IF Val(r.master).ai_count < 0 THEN <<None, None>>
    ELSE LET ai_count == Val(r.master).ai_count
         IN <<IF ai_count \in DOMAIN r.ai_outputs
              THEN Some(r.ai_outputs[ai_count]) ELSE None,
              IF ai_count \in DOMAIN r.human_outputs
              THEN Some(r.human_outputs[ai_count]) ELSE None>>

InitLatest ==
    /\ pc = "latest"
    /\ redis = EmptyRedis
    /\ call = [log |-> <<>>, result |-> None]
    /\ clients = <<>>
    /\ batch = None
    /\ retry = None
    /\ routing = None
    /\ ui = None
    /\ process = None
    /\ pregel = None
    /\ run_config = [split_vectorstore_by_agent |-> FALSE,
                     check_explanations |-> FALSE,
                     final_determination_method |-> "rule_based",
                     persist |-> "redis"]
    /\ trial_criteria = <<>>
    /\ vectorstore = {}
    /\ graph = NoGraph
    /\ state = NoState
    /\ out_file = None
    /\ llm_usage = [input |-> 0, output |-> 0]
    /\ stage_log = <<>>
    /\ dispatched = {}
    /\ result_writes = <<>>
    /\ fragments = None
    /\ merged = None

latest_unchanged ==
    UNCHANGED <<pc, clients, batch, retry, routing, ui, process, pregel,
                run_config, trial_criteria, vectorstore, graph, state, out_file,
                llm_usage, stage_log, dispatched, result_writes, reducer_vars>>

\* save_results_redis: redis_manager.add_ai_output(mrn, protocol, result);
\* the result stored is told apart by the number of the call
add_ai_output_call ==
    /\ pc = "latest"
    /\ Len(call.log) < MaxOps
    /\ LET result == <<"ai", Len(call.log) + 1>>
       IN /\ redis' = add_output(redis, "ai", result)
          /\ call' = [log |-> Append(call.log, [kind |-> "ai", result |-> result,
                                               of |-> latest_ai_index(redis')]),
                      result |-> None]
    /\ latest_unchanged

\* save_outputs: redis_manager.add_human_output(mrn, protocol, result), the
\* feedback on the AI output the page has loaded, which is the latest one
add_human_output_call ==
    /\ pc = "latest"
    /\ Len(call.log) < MaxOps
    /\ LET result == <<"human", Len(call.log) + 1>>
       IN /\ redis' = add_output(redis, "human", result)
          /\ call' = [log |-> Append(call.log, [kind |-> "human", result |-> result,
                                               of |-> latest_ai_index(redis)]),
                      result |-> None]
    /\ latest_unchanged

\* load_inputs: ai_output, human_output = get_most_recent_outputs(mrn, protocol)
get_most_recent_outputs_call ==
    /\ pc = "latest"
    /\ call.result = None
    /\ call' = [call EXCEPT !.result = Some(get_most_recent_outputs(redis))]
    /\ UNCHANGED redis
    /\ latest_unchanged

NextLatest ==
    \/ add_ai_output_call
    \/ add_human_output_call
    \/ get_most_recent_outputs_call

SpecLatest == InitLatest /\ [][NextLatest]_vars

\* ------------------------------------- two calls for one pair, file persistence
\* run_langgraph_trial_matcher called a second time for the same (mrn, trial_id)
\* with the same run_config and output_dir; process remembers, for the call
\* that is on, how the call before it ended and what it found at its start
TwiceConfigs ==
    {c \in RunConfigs : /\ ~c.check_explanations
                        /\ c.final_determination_method = "rule_based"
                        /\ c.persist = "file"}

InitTwice ==
    /\ pc = "start"
    /\ run_config \in TwiceConfigs
    /\ trial_criteria \in all_trial_criteria
    /\ vectorstore \in IF run_config.split_vectorstore_by_agent
                       THEN VectorStores ELSE {FullStore}
    /\ graph = NoGraph
    /\ state = NoState
    /\ out_file \in {None, Some(Some(OldResult))}
    /\ redis = EmptyRedis
    /\ llm_usage = [input |-> 0, output |-> 0]
    /\ stage_log = <<>>
    /\ dispatched = {}
    /\ result_writes = <<>>
    /\ fragments = None
    /\ merged = None
    /\ clients = <<>>
    /\ batch = None
    /\ retry = None
    /\ routing = None
    /\ ui = None
    /\ process = [runs |-> 1, ended |-> None, out_file |-> out_file, writes |-> 0]
    /\ pregel = None
    /\ call = None

\* the next call for the same pair: the output directory, and the trial's
\* Criterion objects, are the ones the call before left
call_again ==
    /\ process # None
    /\ process.runs < MaxRuns
    /\ pc \in {"END", "aborted", "skipped"}
    /\ process' = [runs |-> process.runs + 1, ended |-> Some(pc),
                   out_file |-> out_file, writes |-> Len(result_writes)]
    /\ pc' = "start"
    /\ graph' = NoGraph
    /\ state' = NoState
    /\ llm_usage' = [input |-> 0, output |-> 0]
    /\ stage_log' = <<>>
    /\ dispatched' = {}
    /\ UNCHANGED <<run_config, trial_criteria, vectorstore, out_file, redis,
                   result_writes, reducer_vars, clients, batch, retry, routing,
                   ui, pregel, call>>

NextTwice ==
    \/ run_langgraph_trial_matcher
    \/ Node_trial_coordinator
    \/ Node_expert
    \/ Node_consult_expert
    \/ Node_experts
    \/ Node_principal_investigator
    \/ Node_update_current_criterion
    \/ Node_final_determination_rule_based
    \/ Node_save_results
    \/ write_out_file
    \/ node_raises
    \/ call_again

SpecTwice == InitTwice /\ [][NextTwice]_vars

\* ------------------------------------------------ count_criteria_statuses
\* count_criteria_statuses and final_determination_rule_based called on the
\* same completed_criteria list
StatusClasses == {"qualifying", "disqualifying", "unable to determine"}

\* the counters one criterion increments, with "not met" disqualifying and
\* "met" qualifying whatever the criterion's type
statuses_ignoring_type(crit) ==
    (IF crit.determination = "unable to determine"
     THEN {"unable to determine"} ELSE {})
    \cup (IF crit.determination = "not met" THEN {"disqualifying"} ELSE {})
    \cup (IF crit.determination = "met" THEN {"qualifying"} ELSE {})

\* the counters one criterion increments: the three ifs of the loop body
statuses(crit) ==
    (IF crit.determination = "unable to determine"
     THEN {"unable to determine"} ELSE {})
    \cup (IF \/ crit.criterion_type = "inclusion" /\ crit.determination = "not met"
             \/ crit.criterion_type = "exclusion" /\ crit.determination = "met"
          THEN {"disqualifying"} ELSE {})
    \cup (IF \/ crit.criterion_type = "inclusion" /\ crit.determination = "met"
             \/ crit.criterion_type = "exclusion" /\ crit.determination = "not met"
          THEN {"qualifying"} ELSE {})

\* counts, starting from 0 and incremented over state.completed_criteria
count_criteria_statuses(completed) ==
    [k \in StatusClasses |->
        Cardinality({i \in DOMAIN completed : k \in statuses(completed[i])})]

InitStatuses ==
    /\ pc = "statuses"
    /\ call \in [completed_criteria : CompletedLists, counts : {None},
                 final_determination : {None}]
    /\ run_config = [split_vectorstore_by_agent |-> FALSE,
                     check_explanations |-> FALSE,
                     final_determination_method |-> "rule_based",
                     persist |-> "redis"]
    /\ trial_criteria = <<>>
    /\ vectorstore = {}
    /\ graph = NoGraph
    /\ state = NoState
    /\ out_file = None
    /\ redis = EmptyRedis
    /\ llm_usage = [input |-> 0, output |-> 0]
    /\ stage_log = <<>>
    /\ dispatched = {}
    /\ result_writes = <<>>
    /\ fragments = None
    /\ merged = None
    /\ clients = <<>>
    /\ batch = None
    /\ retry = None
    /\ routing = None
    /\ ui = None
    /\ process = None
    /\ pregel = None

\* counts = count_criteria_statuses(results)
count_criteria_statuses_call ==
    /\ pc = "statuses"
    /\ call.counts = None
    /\ call' = [call EXCEPT !.counts =
                   Some(count_criteria_statuses(call.completed_criteria))]
    /\ UNCHANGED pc
    /\ call_unchanged

\* final_determination_rule_based on a state with these completed criteria
final_determination_rule_based_call ==
    /\ pc = "statuses"
    /\ call.final_determination = None
    /\ LET s == [NoState EXCEPT
                    !.completed_criteria = call.completed_criteria,
                    !.n_total_criteria = Len(call.completed_criteria)]
       IN call' = [call EXCEPT !.final_determination =
                      Some(rule_based_call(s).final_determination)]
    /\ UNCHANGED pc
    /\ call_unchanged

NextStatuses ==
    \/ count_criteria_statuses_call
    \/ final_determination_rule_based_call

SpecStatuses == InitStatuses /\ [][NextStatuses]_vars


\* ================================================================ properties
RunStages ==
    {"trial_coordinator", "expert", "consult_expert", "experts",
     "principal_investigator", "check_explanation", "update_current_criterion",
     "make_final_determination", "save_results", "hincrby", "set", "write", "END"}

CriterionStages ==
    {"trial_coordinator", "expert", "consult_expert", "experts",
     "principal_investigator", "check_explanation", "update_current_criterion"}

PersistStages == {"save_results", "hincrby", "set", "write"}

IdsOf(cs) == [i \in 1..Len(cs) |-> cs[i].id]

NoRepeat(seq) == \A i, j \in DOMAIN seq : seq[i] = seq[j] => i = j

IsPrefix(a, b) == Len(a) <= Len(b) /\ SubSeq(b, 1, Len(a)) = a

\* the ids of the stages run so far
LoggedIds == {stage_log[p][2] : p \in DOMAIN stage_log}

\* C1: at every stage boundary of a run, the criteria waiting, the active one
\* and the completed ones add up to n_total_criteria, the length of the trial's
\* criteria list
BucketConservation ==
    pc \in RunStages =>
        /\ Len(state.uncompleted_criteria)
             + (IF state.active_criterion # None THEN 1 ELSE 0)
             + Len(state.completed_criteria) = state.n_total_criteria
        /\ state.n_total_criteria = Len(trial_criteria)

\* a run that moved two criteria to completed, one by one, and has none left
BucketConservationWitness ==
    /\ pc = "make_final_determination"
    /\ state.active_criterion = None
    /\ Len(state.completed_criteria) = 2
    /\ Cardinality(LoggedIds) = 2

Disqualifying(c) ==
    \/ c.criterion_type = "inclusion" /\ c.determination = "not met"
    \/ c.criterion_type = "exclusion" /\ c.determination = "met"

FlipType(cs, i) ==
    [cs EXCEPT ![i].criterion_type =
        IF @ = "inclusion" THEN "exclusion" ELSE "inclusion"]

\* C2: the rule-based final determination is "ineligible" exactly when some
\* completed inclusion criterion is "not met" or some completed exclusion
\* criterion is "met", and "eligible" otherwise; flipping the type of a
\* criterion that is "unable to determine" leaves the verdict as it is
RuleBasedVerdict ==
    (pc = "save_results" /\ run_config.final_determination_method = "rule_based") =>
        LET completed == state.completed_criteria
        IN /\ state.final_determination =
                IF \E i \in DOMAIN completed : Disqualifying(completed[i])
                THEN "ineligible" ELSE "eligible"
           /\ \A i \in DOMAIN completed :
                 completed[i].determination = "unable to determine" =>
                    final_determination_rule_based(
                        [state EXCEPT !.completed_criteria = FlipType(completed, i),
                                      !.final_determination = "None"]
                    ).final_determination = state.final_determination

\* an undetermined criterion stands before a disqualifying exclusion criterion
RuleBasedVerdictWitness ==
    /\ pc = "save_results"
    /\ Len(state.completed_criteria) = 3
    /\ state.completed_criteria[1].determination = "unable to determine"
    /\ state.completed_criteria[2].criterion_type = "exclusion"
    /\ state.completed_criteria[2].determination = "not met"
    /\ state.completed_criteria[3].criterion_type = "exclusion"
    /\ state.completed_criteria[3].determination = "met"
    /\ state.final_determination = "ineligible"

\* the criteria left for the experts, in the order of the trial's list
NormalIds == IdsOf(SelectSeq(trial_criteria, LAMBDA c : ~PreResolved(c)))

Advances ==
    Cardinality({p \in DOMAIN stage_log : stage_log[p][1] = "update_current_criterion"})

\* C3: the stages run on normal criteria only and in the order of the filtered
\* list: they start with the first criterion of the list, the criterion of a
\* stage changes only behind update_current_criterion and then to the next of
\* the list, and the active criterion at a stage is the one whose turn it is
ProcessingOrder ==
    LET ids == NormalIds
        pos == [p \in DOMAIN stage_log |->
                   CHOOSE k \in DOMAIN ids : ids[k] = stage_log[p][2]]
    IN /\ \A p \in DOMAIN stage_log : stage_log[p][2] \in Range(ids)
       /\ stage_log # <<>> => pos[1] = 1
       /\ \A p \in 1..(Len(stage_log) - 1) :
             \/ pos[p + 1] = pos[p] /\ stage_log[p][1] # "update_current_criterion"
             \/ pos[p + 1] = pos[p] + 1 /\ stage_log[p][1] = "update_current_criterion"
       /\ pc \in CriterionStages =>
             /\ state.active_criterion # None
             /\ Advances < Len(ids)
             /\ Val(state.active_criterion).id = ids[Advances + 1]

\* the second criterion of the list is being consulted after the first was
\* advanced
ProcessingOrderWitness ==
    /\ pc = "principal_investigator"
    /\ Len(NormalIds) = 2
    /\ Advances = 1
    /\ Val(state.active_criterion).id = NormalIds[2]

AllIds(s) ==
    IdsOf(s.completed_criteria)
      \o (IF s.active_criterion # None THEN <<Val(s.active_criterion).id>> ELSE <<>>)
      \o IdsOf(s.uncompleted_criteria)

\* C4: no criterion id occurs twice among completed, active and uncompleted, and
\* every step of a run keeps the completed list as a prefix of the new one
NoBacktracking ==
    [][pc' \in RunStages =>
          /\ NoRepeat(AllIds(state'))
          /\ pc \in RunStages =>
                IsPrefix(state.completed_criteria, state'.completed_criteria)]_vars

\* a second criterion is appended behind one that was completed by the experts
NoBacktrackingWitness ==
    /\ pc = "make_final_determination"
    /\ Len(state.completed_criteria) = 2
    /\ \A i \in 1..2 : state.completed_criteria[i].id \in dispatched

StoredResults ==
    Range(redis.experiment_results)
      \cup {redis.ai_outputs[i] : i \in DOMAIN redis.ai_outputs}
      \cup (IF out_file # None /\ Val(out_file) # None THEN {Val(Val(out_file))} ELSE {})

IsPreResolved(c, d) ==
    /\ d.determination = (IF c.vacuous THEN "met" ELSE "unable to determine")
    /\ d.explanation # None
    /\ DOMAIN Val(d.explanation) = {"rule"}

\* C5: a vacuous criterion, or one that requires human review, is in completed
\* from the first stage on with determination "met", resp. "unable to
\* determine", and the single explanation key "rule"; it is never active, no
\* stage runs on it, no expert is asked about it, and the stored result shows it
\* the same way
PreResolvedCriteria ==
    pc \in RunStages =>
        \A i \in DOMAIN trial_criteria :
           LET c == trial_criteria[i]
           IN PreResolved(c) =>
                /\ \E j \in DOMAIN state.completed_criteria :
                      state.completed_criteria[j].id = c.id
                /\ \A j \in DOMAIN state.completed_criteria :
                      state.completed_criteria[j].id = c.id =>
                         IsPreResolved(c, state.completed_criteria[j])
                /\ state.active_criterion # None =>
                      Val(state.active_criterion).id # c.id
                /\ c.id \notin Range(IdsOf(state.uncompleted_criteria))
                /\ c.id \notin dispatched
                /\ c.id \notin LoggedIds
                /\ \A res \in StoredResults :
                      \E j \in DOMAIN res.completed_criteria :
                         /\ res.completed_criteria[j].id = c.id
                         /\ IsPreResolved(c, res.completed_criteria[j])

\* a run ended whose trial lists a criterion that requires human review behind
\* a criterion the experts answered
PreResolvedCriteriaWitness ==
    /\ pc = "END"
    /\ Len(trial_criteria) = 2
    /\ ~PreResolved(trial_criteria[1])
    /\ trial_criteria[2].requires_human_review
    /\ StoredResults # {}

\* C6: a run that reached END wrote its result once, in the persist stage and
\* with final_determination set, and the store holds that one result; up to
\* the persist stage nothing was written to Redis or to the output file
PersistedOnce ==
    /\ pc = "END" =>
          /\ Len(result_writes) = 1
          /\ result_writes[1].at \in PersistStages
          /\ result_writes[1].final_determination \in FinalDeterminations
          /\ Cardinality(StoredResults) = 1
          /\ \A res \in StoredResults :
                res.final_determination = result_writes[1].final_determination
          /\ Len(redis.experiment_results) + Cardinality(DOMAIN redis.ai_outputs) <= 1
    /\ pc \in (RunStages \ {"hincrby", "set", "write", "END"}) =>
          /\ result_writes = <<>>
          /\ redis = EmptyRedis
          /\ out_file = None

\* a run ended with its result stored in Redis as the pair's first AI output
PersistedOnceWitness ==
    /\ pc = "END"
    /\ run_config.persist = "redis"
    /\ DOMAIN redis.ai_outputs = {0}
    /\ Val(redis.master).ai_count = 0

\* C7: after a run was left on an error, no result of it was written and the
\* store shows nothing partial: no output file without content, no AI output
\* counted that is not stored
FailedRunLeavesNoResult ==
    pc = "aborted" =>
        /\ result_writes = <<>>
        /\ StoredResults = {}
        /\ out_file = None
        /\ redis.master # None =>
              \A i \in 0..Val(redis.master).ai_count : i \in DOMAIN redis.ai_outputs

\* C8: in the persist stage and at END, input_tokens and output_tokens are the
\* sums over the LLM calls of the run
TokenAccounting ==
    pc \in PersistStages \cup {"END"} =>
        /\ state.input_tokens = llm_usage.input
        /\ state.output_tokens = llm_usage.output

\* two merged criteria agree on the explanation and on the set of documents
SameMerge(x, y) ==
    /\ Val(x).explanation = Val(y).explanation
    /\ Range(Val(Val(x).rag_docs)) = Range(Val(Val(y).rag_docs))

\* C9: the fragments of two experts merged into the active criterion in either
\* order give the same explanation and the same set of documents, and so do
\* three fragments in any order and in either grouping
MergeOrderIndependent ==
    merged # None =>
        LET m == Val(merged)
        IN /\ SameMerge(m.ab, m.ba)
           /\ \A o1, o2 \in DOMAIN m.orders : SameMerge(m.orders[o1], m.orders[o2])
           /\ SameMerge(m.left, m.right)
           /\ SameMerge(m.left, m.orders[<<"a", "b", "c">>])

\* the two orders were merged for fragments that differ in their texts and in
\* their documents, and the merged document lists differ in their order
MergeOrderIndependentWitness ==
    /\ merged # None
    /\ Val(Val(fragments.a).explanation)["cardiology"]
          # Val(Val(fragments.b).explanation)["oncology"]
    /\ Val(fragments.a).rag_docs # Val(fragments.b).rag_docs
    /\ Val(Val(merged).ab).rag_docs # Val(Val(merged).ba).rag_docs

\* C10: two fragments under different expert keys merge to a criterion whose
\* explanation has the keys of both with their values and whose rag_docs hold
\* every document of either, none of them twice
MergeKeepsBoth ==
    merged # None =>
        LET a == Val(fragments.a)
            b == Val(fragments.b)
        IN \A res \in {Val(Val(merged).pair), Val(Val(merged).ab), Val(Val(merged).ba)} :
              /\ res.id = a.id
              /\ DOMAIN Val(res.explanation) =
                    DOMAIN Val(a.explanation) \cup DOMAIN Val(b.explanation)
              /\ \A k \in DOMAIN Val(a.explanation) :
                    Val(res.explanation)[k] = Val(a.explanation)[k]
              /\ \A k \in DOMAIN Val(b.explanation) :
                    Val(res.explanation)[k] = Val(b.explanation)[k]
              /\ Range(Val(res.rag_docs)) =
                    Range(Val(a.rag_docs)) \cup Range(Val(b.rag_docs))
              /\ NoRepeat(Val(res.rag_docs))

\* the two fragments share a document and each has one of its own
MergeKeepsBothWitness ==
    /\ merged # None
    /\ Val(Val(fragments.a).rag_docs) = <<1, 2>>
    /\ Val(Val(fragments.b).rag_docs) = <<2, 3>>
    /\ Val(Val(Val(merged).pair).rag_docs) = <<1, 2, 3>>

\* -------------------------------------------------- concurrent store writers
\* the calls that returned: <<process, number of the call>>
ReturnedCalls ==
    {<<c, n>> \in Clients \X (1..MaxCalls) :
        \/ n < clients[c].call
        \/ n = clients[c].call /\ clients[c].at = "returned"}

\* the calls that were given an index
IndexedCalls == {<<c, n>> \in Clients \X (1..MaxCalls) : n <= Len(clients[c].got)}

\* C11: concurrent add_ai_output / add_human_output calls for one pair, the
\* pair's very first writes included, never get the same index for the same
\* kind of output, and the output of a call that returned is still stored
\* under the index the call was given
UniqueOutputIndex ==
    pc = "store" =>
        /\ \A x, y \in IndexedCalls :
              x # y => clients[x[1]].got[x[2]] # clients[y[1]].got[y[2]]
        /\ \A x \in ReturnedCalls :
              LET g == clients[x[1]].got[x[2]]
                  outs == redis[outputs_field(g[1])]
              IN g[2] \in DOMAIN outs /\ outs[g[2]] = Payload(x[1], x[2])

\* ------------------------------------------------------------ run_experiment
\* the rows whose loop body is over
RowsOver == {r \in Rows : r < batch.row}

\* no incremented counter without its stored output, in the keys of one pair
CounterMatchesOutputs(r) ==
    r.master # None =>
        \A i \in 0..Val(r.master).ai_count : i \in DOMAIN r.ai_outputs

\* C12: when the timeout goes off during a row's run, wherever the run is,
\* the run is abandoned (run_with_timeout returns None for the row) and the
\* row's keys hold no counter without its stored output
TimeoutAbandonsRun ==
    pc = "experiment" =>
        \A r \in RowsOver \cap batch.fired :
            batch.outcome[r] # "raised" =>
                /\ batch.outcome[r] = "None"
                /\ CounterMatchesOutputs(batch.store[r])

\* C13: every row of the dataset is visited although an earlier row failed,
\* and no exception, the timeout signal of an earlier row included, leaves
\* the loop over the rows
BatchIsolation ==
    pc = "experiment" =>
        /\ batch.at # "escaped"
        /\ batch.at = "finished" => \A r \in Rows : batch.outcome[r] # "unvisited"

\* ---------------------------------------- retry_with_exponential_backoff
RateLimited(k) == retry.calls[k] = "RateLimitError"

\* C14: the wrapper returns the result of the first attempt that is not
\* rate limited; it waits base_wait, then twice the wait before, after each
\* of the first max_retries rate-limit failures; it invokes the function at
\* most max_retries + 1 times and re-raises the rate-limit error when all of
\* them failed
RetryContract ==
    pc = "retry" =>
        LET n == Len(retry.calls)
            w == retry.waits
        IN /\ n <= retry.max_retries + 1
           /\ \A k \in 1..(n - 1) : RateLimited(k)
           /\ Len(w) = Cardinality({k \in 1..n : RateLimited(k) /\ k <= retry.max_retries})
           /\ \A k \in DOMAIN w :
                 w[k] = IF k = 1 THEN retry.base_wait ELSE 2 * w[k - 1]
           /\ retry.at = "returned" <=> (n > 0 /\ retry.calls[n] = "returns")
           /\ retry.at = "returned" => retry.result = Some(<<"response", n>>)
           /\ (n = retry.max_retries + 1 /\ RateLimited(n))
                 <=> (retry.at = "raised" /\ retry.raised = Some(<<"RateLimitError", n>>))
           /\ retry.at = "sleep" => Len(w) = n /\ RateLimited(n)

\* every attempt was rate limited, the last wait was four times the base wait
RetryContractWitness ==
    /\ pc = "retry"
    /\ retry.at = "raised"
    /\ retry.max_retries = 3
    /\ Len(retry.calls) = 4
    /\ \A k \in 1..4 : RateLimited(k)
    /\ retry.waits = <<retry.base_wait, 2 * retry.base_wait, 4 * retry.base_wait>>

\* ------------------------------------------------------------------ router
\* C15: whatever the router responds (nobody, or a name twice), the criterion
\* is routed to a non-empty list of available experts without repetition; on
\* an empty response to the generalist alone if there is one, else to every
\* available expert; the list is recorded in answered_by and it is these
\* experts that answer
RouterOutput ==
    (routing # None /\ pc \in {"experts", "principal_investigator"}) =>
        LET response == Val(routing)
            expert_choices == DOMAIN graph.agents
            crit == Val(state.active_criterion)
            routed == Val(crit.answered_by)
        IN /\ crit.answered_by # None
           /\ routed # <<>>
           /\ Range(routed) \subseteq expert_choices
           /\ \A i, j \in DOMAIN routed : routed[i] = routed[j] => i = j
           /\ response # <<>> => Range(routed) = Range(response)
           /\ response = <<>> =>
                 Range(routed) = IF "generalist" \in expert_choices
                                 THEN {"generalist"} ELSE expert_choices
           /\ pc = "principal_investigator" =>
                 DOMAIN Val(crit.explanation) = Range(routed)

\* an empty response without a generalist: both specialists have answered
RouterOutputWitness ==
    /\ routing = Some(<<>>)
    /\ pc = "principal_investigator"
    /\ DOMAIN graph.agents = {"cardiology", "oncology"}
    /\ DOMAIN Val(Val(state.active_criterion).explanation) = {"cardiology", "oncology"}

\* ------------------------------------------------------- the empty partition
\* C16: with a routing table configured and a partition without any bucket,
\* the run fails at its start: no node runs on any criterion, no expert is
\* consulted and nothing is written to the store or to the output file
EmptyPartitionFailsFast ==
    (/\ pc \in RunStages \cup {"start", "aborted", "skipped"}
     /\ run_config.split_vectorstore_by_agent
     /\ DOMAIN split_vectorstore_by_agent(vectorstore) = {}) =>
        /\ pc \in {"start", "aborted", "skipped"}
        /\ stage_log = <<>>
        /\ dispatched = {}
        /\ llm_usage = [input |-> 0, output |-> 0]
        /\ result_writes = <<>>
        /\ redis = EmptyRedis

\* -------------------------------------------------------- persisted order
\* how often x occurs in the list
Occurrences(list, x) == Cardinality({i \in DOMAIN list : list[i] = x})

\* C17: whatever the order of completed_criteria entering save_results, the
\* persisted list is a permutation of it with every inclusion criterion
\* before every exclusion criterion and, within a type, ascending numbers
PersistedSortOrder ==
    pc = "END" =>
        \A res \in StoredResults :
            LET saved == res.completed_criteria
                entered == state.completed_criteria
            IN /\ Len(saved) = Len(entered)
               /\ \A c \in Range(saved) \cup Range(entered) :
                     Occurrences(saved, c) = Occurrences(entered, c)
               /\ \A i, j \in DOMAIN saved :
                     i < j =>
                        /\ ~(saved[i].criterion_type = "exclusion"
                             /\ saved[j].criterion_type = "inclusion")
                        /\ saved[i].criterion_type = saved[j].criterion_type
                              => saved[i].id[3] < saved[j].id[3]

\* an exclusion criterion entered first, followed by inclusion criteria 3 and 1
PersistedSortOrderWitness ==
    /\ pc = "END"
    /\ IdsOf(state.completed_criteria) =
          << <<"exclusion", "criterion", 2>>, <<"inclusion", "criterion", 3>>,
             <<"inclusion", "criterion", 1>> >>
    /\ \E res \in StoredResults :
          IdsOf(res.completed_criteria) =
             << <<"inclusion", "criterion", 1>>, <<"inclusion", "criterion", 3>>,
                <<"exclusion", "criterion", 2>> >>

\* ------------------------------------------------ rule-based re-evaluation
\* the determinations of a list of criteria, by id
DeterminationsOf(cs) == {<<cs[i].id, cs[i].determination>> : i \in DOMAIN cs}

\* C18: final_determination_rule_based applied again to the same completed
\* criteria gives the same verdict, which is a function of the completed
\* criteria alone; it changes no bucket and no determination; on the page,
\* re-evaluating the persisted result of a rule-based run gives the persisted
\* verdict
RuleBasedIdempotent ==
    /\ (pc \in {"save_results", "hincrby", "set", "END"}
        /\ run_config.final_determination_method = "rule_based"
        /\ state.final_determination # "None") =>
          /\ state.final_determination = rule_based_verdict(state.completed_criteria)
          /\ rule_based_call(state) = state
          /\ rule_based_call(rule_based_call(state)) = rule_based_call(state)
          /\ rule_based_call(state).completed_criteria = state.completed_criteria
          /\ rule_based_call(state).uncompleted_criteria = state.uncompleted_criteria
          /\ rule_based_call(state).active_criterion = state.active_criterion
    /\ (ui # None /\ ui.reruns > 0) =>
          LET persisted == ui.results_obj
              shown == Val(ui.results)
          IN /\ ui.error = None
             /\ ui.results # None
             /\ shown.final_determination = persisted.final_determination
             /\ shown.final_determination = state.final_determination
             /\ IdsOf(shown.completed_criteria) = IdsOf(persisted.completed_criteria)
             /\ DeterminationsOf(shown.completed_criteria)
                   = DeterminationsOf(state.completed_criteria)
             /\ shown.uncompleted_criteria = persisted.uncompleted_criteria
             /\ shown.active_criterion = persisted.active_criterion
             /\ rule_based_call(shown) = shown

\* the page has re-evaluated twice a persisted result whose disqualifying
\* criterion was moved behind a qualifying one by the sort
RuleBasedIdempotentWitness ==
    /\ ui # None
    /\ ui.reruns = 2
    /\ Val(ui.results).final_determination = "ineligible"
    /\ IdsOf(state.completed_criteria) # IdsOf(ui.results_obj.completed_criteria)
    /\ Len(state.completed_criteria) = 2
    /\ Disqualifying(state.completed_criteria[1])
    /\ ~Disqualifying(state.completed_criteria[2])

\* ------------------------------------------------------- the quality gate
\* the positions of the stage log at which the gate ran
GateRuns == {p \in DOMAIN stage_log : stage_log[p][1] = "check_explanation"}

\* C19: the quality gate runs at most once per criterion, right after the
\* criterion's adjudication; its revision is not checked again, and whatever
\* the gate decides the next stage is the advance to the next criterion
QualityGateOnce ==
    /\ \A p, q \in GateRuns : stage_log[p][2] = stage_log[q][2] => p = q
    /\ \A p \in GateRuns :
          /\ p > 1
          /\ stage_log[p - 1] = <<"principal_investigator", stage_log[p][2]>>
          /\ IF p < Len(stage_log)
             THEN stage_log[p + 1] = <<"update_current_criterion", stage_log[p][2]>>
             ELSE pc \in {"update_current_criterion", "aborted"}
    /\ GateRuns # {} => run_config.check_explanations
    /\ pc = "check_explanation" =>
          /\ stage_log # <<>>
          /\ stage_log[Len(stage_log)][1] = "principal_investigator"

\* the gate ran for two criteria, and the run went on to its end
QualityGateOnceWitness ==
    /\ Cardinality(GateRuns) = 2
    /\ pc = "END"

\* the tokens of the gate's three calls: check, clarifying answer, revision
RefineUsage == <<Usage.check, Usage.query, Usage.refine>>

\* C20: when the gate revises (its three calls were made), the active
\* criterion's explanation gains the key "revised" with the revised text and
\* keeps every key it had with its value; when the gate continues, the
\* explanation is unchanged; the advance appends the active criterion as it is
RevisedRecorded ==
    [][/\ (pc = "check_explanation" /\ pc' = "update_current_criterion") =>
            LET before == Val(Val(state.active_criterion).explanation)
                after == Val(Val(state'.active_criterion).explanation)
                refined == llm_usage'.input - llm_usage.input = SumPrompt(RefineUsage)
            IN /\ Val(state'.active_criterion).id = Val(state.active_criterion).id
               /\ IF refined
                  THEN /\ DOMAIN after = DOMAIN before \cup {"revised"}
                       /\ after["revised"] = "revised explanation"
                       /\ \A k \in DOMAIN before : after[k] = before[k]
                  ELSE after = before
       /\ (pc = "update_current_criterion" /\ pc' # "aborted") =>
            /\ Len(state'.completed_criteria) = Len(state.completed_criteria) + 1
            /\ state'.completed_criteria[Len(state'.completed_criteria)]
                  = Val(state.active_criterion)
      ]_vars

\* a completed criterion answered by two experts and revised by the gate
RevisedRecordedWitness ==
    \E i \in DOMAIN state.completed_criteria :
        LET c == state.completed_criteria[i]
        IN /\ c.explanation # None
           /\ DOMAIN Val(c.explanation) = {"cardiology", "oncology", "revised"}
           /\ Val(c.explanation)["revised"] = "revised explanation"
           /\ Val(c.explanation)["cardiology"] = AnswerText["cardiology"]
           /\ Val(c.explanation)["oncology"] = AnswerText["oncology"]

\* ---------------------------------------------------------- resumable epochs
\* C21: with an epoch given, a pair that a run of the batch has persisted a
\* result for is not run and not persisted again when the batch is started
\* again with the same epoch
ResumableEpochs ==
    (pc = "experiment" /\ batch.epoch # None) =>
        /\ \A r \in Rows : batch.persisted[r] <= 1
        /\ batch.at \in InsideRun \cup {"alarm"} =>
              (batch.persisted[batch.row] = 0 \/ batch.at = "cancel")

\* the criteria a run is started with: the active one and the uncompleted ones
StartedWith ==
    Range(state.uncompleted_criteria) \cup
       (IF state.active_criterion = None THEN {} ELSE {Val(state.active_criterion)})

\* a run of the process was just started
RunStarted == process # None /\ pc = "trial_coordinator" /\ stage_log = <<>>

\* C22: every run of a process starts with normal criteria that carry nothing
\* of an earlier run: no determination, no explanation, no answered_by and no
\* rag_docs
RunsShareNoCriterionState ==
    RunStarted =>
        \A c \in StartedWith :
           /\ c.determination = "None"
           /\ c.explanation = None
           /\ c.answered_by = None
           /\ c.rag_docs = None

\* C23: from one stage of a run to the next, input_tokens and output_tokens
\* never decrease
TokensNeverDecrease ==
    [][(pc \in RunStages /\ pc' \in RunStages) =>
          /\ state'.input_tokens >= state.input_tokens
          /\ state'.output_tokens >= state.output_tokens]_vars

\* the adjudicating stage has run behind the experts, and both have counted
\* their tokens
TokensNeverDecreaseWitness ==
    /\ pc = "update_current_criterion"
    /\ state.input_tokens >= Usage.agent.prompt_tokens +
                              Usage.principal_investigator.prompt_tokens
    /\ state.output_tokens >= Usage.agent.completion_tokens +
                               Usage.principal_investigator.completion_tokens

StagesOf(id) ==
    LET on == SelectSeq(stage_log, LAMBDA x : x[2] = id)
    IN [i \in 1..Len(on) |-> on[i][1]]

\* the path of one criterion through the graph that was built
ExpectedStages ==
    (IF graph.kind = "multi"
     THEN <<"trial_coordinator", "consult_expert", "experts">>
     ELSE <<"trial_coordinator", "expert">>)
    \o <<"principal_investigator">>
    \o (IF run_config.check_explanations THEN <<"check_explanation">> ELSE <<>>)
    \o <<"update_current_criterion">>

\* C25: the stages run on a normal criterion are, in this order and once each,
\* trial_coordinator, the expert stage, principal_investigator (behind the
\* whole expert stage), check_explanation exactly when check_explanations is
\* set, and update_current_criterion; a completed criterion has run them all
StageOrder ==
    pc \in RunStages =>
        /\ \A id \in LoggedIds : IsPrefix(StagesOf(id), ExpectedStages)
        /\ \A i \in DOMAIN state.completed_criteria :
              LET id == state.completed_criteria[i].id
              IN id \in Range(NormalIds) => StagesOf(id) = ExpectedStages

\* a run of the branching graph with the check ended with two criteria taken
\* through all their stages
StageOrderWitness ==
    /\ pc = "END"
    /\ graph.kind = "multi"
    /\ run_config.check_explanations
    /\ Len(NormalIds) = 2
    /\ \A i \in DOMAIN NormalIds : StagesOf(NormalIds[i]) = ExpectedStages

\* C26: behind update_current_criterion comes make_final_determination exactly
\* when no criterion is active, and trial_coordinator otherwise;
\* make_final_determination is entered with nothing waiting, nothing active and
\* n_total_criteria criteria completed; no stage of the per-criterion path is
\* entered without an active criterion
TerminalCheck ==
    /\ [][(pc = "update_current_criterion" /\ pc' # "aborted") =>
             /\ pc' \in {"make_final_determination", "trial_coordinator"}
             /\ pc' = "make_final_determination" <=> state'.active_criterion = None]_vars
    /\ [](pc = "make_final_determination" =>
             /\ state.uncompleted_criteria = <<>>
             /\ state.active_criterion = None
             /\ Len(state.completed_criteria) = state.n_total_criteria)
    /\ [](pc \in CriterionStages => state.active_criterion # None)

\* the check sent the run back to trial_coordinator once and on to the final
\* determination afterwards
TerminalCheckWitness ==
    /\ pc = "make_final_determination"
    /\ Advances = 2

\* C27: an update with another id than the current criterion's becomes the
\* channel's value as it is, and a None update leaves the channel empty
ReducerReplaces ==
    pc = "replaced" =>
        LET current == fragments.current
            update == fragments.update
            result == Val(merged).result
        IN /\ update = None => result = None
           /\ (update # None /\ Val(update).id # Val(current).id) => result = update

\* a criterion with an explanation and a determination was replaced by
\* a fresh criterion of another id
ReducerReplacesWitness ==
    /\ pc = "replaced"
    /\ fragments.update # None
    /\ Val(fragments.update).id # Val(fragments.current).id
    /\ Val(fragments.current).explanation # None
    /\ Val(fragments.current).determination = "met"
    /\ Val(fragments.update).explanation = None
    /\ Val(merged).result = fragments.update

\* explanation dict new holds every key of old with old's text
KeepsExplanation(old, new) ==
    old # None =>
        /\ new # None
        /\ DOMAIN Val(old) \subseteq DOMAIN Val(new)
        /\ \A k \in DOMAIN Val(old) : Val(new)[k] = Val(old)[k]

\* C28: while a criterion stays the active one, every update of the state keeps
\* each key of its explanation, with the text recorded under it
ExplanationsNeverDropped ==
    [][(/\ state.active_criterion # None
        /\ state'.active_criterion # None
        /\ Val(state'.active_criterion).id = Val(state.active_criterion).id) =>
          KeepsExplanation(Val(state.active_criterion).explanation,
                           Val(state'.active_criterion).explanation)]_vars

\* two experts and the revision are recorded side by side on the criterion that
\* is about to be completed
ExplanationsNeverDroppedWitness ==
    /\ pc = "update_current_criterion"
    /\ state.active_criterion # None
    /\ Val(state.active_criterion).explanation # None
    /\ {"cardiology", "oncology", "revised"} \subseteq
          DOMAIN Val(Val(state.active_criterion).explanation)

\* C29: in the branching graph the experts all read a criterion without any
\* explanation or document, and principal_investigator starts on a criterion
\* whose explanation has exactly the routed experts as keys and whose rag_docs
\* hold every document retrieved by a routed expert once, whatever the order
\* their updates were merged in
FanIn ==
    (graph.kind = "multi" /\ state.active_criterion # None) =>
        LET crit == Val(state.active_criterion)
        IN /\ pc = "experts" =>
                 /\ crit.explanation = None
                 /\ crit.rag_docs = None
           /\ pc = "principal_investigator" =>
                 LET chosen == Range(Val(crit.answered_by))
                 IN /\ crit.explanation # None
                    /\ DOMAIN Val(crit.explanation) = chosen
                    /\ \A a \in chosen : Val(crit.explanation)[a] = AnswerText[a]
                    /\ NoRepeat(Val(crit.rag_docs))
                    /\ Range(Val(crit.rag_docs)) =
                          UNION {Range(Retrieve(graph.agents[a])) : a \in chosen}

\* two routed experts that retrieved a document in common have answered
FanInWitness ==
    /\ graph.kind = "multi"
    /\ pc = "principal_investigator"
    /\ Range(Val(Val(state.active_criterion).answered_by)) = {"cardiology", "oncology"}
    /\ graph.agents["cardiology"] \cap graph.agents["oncology"] # {}
    /\ Len(Val(Val(state.active_criterion).rag_docs)) = 3

\* the rule-based strategy raised, resp. returned with a verdict
Raised == pc' = "aborted" /\ state'.final_determination = "None"

Evaluated == pc' = "save_results" /\ state'.final_determination \in FinalDeterminations

NonTransientNotRetried ==
    pc = "retry" =>
        \A k \in DOMAIN retry.calls :
           retry.calls[k] = "APIError" =>
              /\ k = Len(retry.calls)
              /\ retry.at = "raised"
              /\ retry.raised = Some(<<"APIError", k>>)
              /\ retry.result = None
              /\ Len(retry.waits) = k - 1
              /\ k = 1 => retry.waits = <<>>

\* with retries to spare, the first invocation raised an error that is no
\* rate-limit error
NonTransientNotRetriedWitness ==
    /\ pc = "retry"
    /\ retry.max_retries = 3
    /\ retry.calls = <<"APIError">>
    /\ retry.at = "raised"
    /\ retry.waits = <<>>

\* the type holds one of the keywords of the list
MatchesKeyword(kws, type) == \E i \in DOMAIN kws : Contains(type, kws[i])

\* what C32 says of the buckets returned for a store and a routing table
Partitioned(store, table, buckets) ==
    LET matched(a) == {d.id : d \in {x \in store : MatchesKeyword(table[a], x.type)}}
        unmatched == {d.id : d \in {x \in store :
                         \A a \in DOMAIN table : ~MatchesKeyword(table[a], x.type)}}
    IN /\ \A a \in DOMAIN buckets : buckets[a] # {}
       /\ \A a \in DOMAIN buckets \ {"generalist"} : buckets[a] = matched(a)
       /\ \A a \in DOMAIN table \ {"generalist"} :
             matched(a) # {} => a \in DOMAIN buckets
       /\ unmatched # {} =>
             "generalist" \in DOMAIN buckets /\ buckets["generalist"] = unmatched
       /\ "generalist" \in DOMAIN buckets => buckets["generalist"] = unmatched
       /\ \A d \in store : \E a \in DOMAIN buckets : d.id \in buckets[a]

\* every expert of the table has a keyword, and none is called "generalist"
ProperTable(table) ==
    /\ "generalist" \notin DOMAIN table
    /\ \A a \in DOMAIN table : table[a] # <<>>

CallsOf(kind, index) ==
    {k \in DOMAIN call.log : call.log[k].kind = kind /\ call.log[k].of = index}

Last(S) == CHOOSE k \in S : \A j \in S : j <= k

\* what the log says the latest pair is
LatestPairOfLog ==
    LET ai == {k \in DOMAIN call.log : call.log[k].kind = "ai"}
    IN IF ai = {} THEN <<None, None>>
       ELSE LET index == call.log[Last(ai)].of
                human == CallsOf("human", index)
            IN <<Some(call.log[Last(ai)].result),
                 IF human = {} THEN None ELSE Some(call.log[Last(human)].result)>>

\* C33: after any sequence of add_ai_output and add_human_output calls for a
\* pair, get_most_recent_outputs returns the most recently appended AI output
\* with the feedback recorded for that same AI output, None for the feedback
\* when that output was not annotated, and (None, None) without an AI output
LatestPair ==
    (pc = "latest" /\ call.result # None) => Val(call.result) = LatestPairOfLog

\* the feedback on the second AI output of a pair, read back as missing
LatestPairLost ==
    /\ pc = "latest"
    /\ Len(call.log) = 3
    /\ call.log[1].kind = "ai" /\ call.log[2].kind = "ai"
    /\ call.log[3].kind = "human" /\ call.log[3].of = 1
    /\ call.result = Some(<<Some(<<"ai", 2>>), None>>)

\* ------------------------------------------------- skip when already completed
\* C34: a call that finds the pair's output file returns without building the
\* graph or a run state, without an LLM call and without a write; of two calls
\* for one pair with file persistence, the first of which ran to its end, there
\* is one result write and the second leaves the first one's file as it was
SkipWhenCompleted ==
    /\ (process # None /\ pc = "skipped") =>
          /\ process.out_file # None
          /\ out_file = process.out_file
          /\ Len(result_writes) = process.writes
          /\ graph = NoGraph
          /\ state = NoState
          /\ llm_usage = [input |-> 0, output |-> 0]
          /\ stage_log = <<>>
          /\ dispatched = {}
    /\ (process # None /\ process.ended = Some("END")) =>
          /\ pc \in {"start", "skipped"}
          /\ Len(result_writes) = 1
          /\ out_file = process.out_file
          /\ out_file # None /\ Val(out_file) # None

SkipWhenCompletedWitness ==
    /\ process # None
    /\ process.runs = 2
    /\ process.ended = Some("END")
    /\ pc = "skipped"
    /\ Len(result_writes) = 1
    /\ out_file # Some(Some(OldResult))

\* ------------------------------------------------- every completed is decided
Decided(cs) == \A i \in DOMAIN cs : cs[i].determination \in Determinations

\* from the final determination on, and in what the run stored
DecidedAtFinal ==
    /\ pc \in {"make_final_determination", "save_results", "hincrby", "set",
               "write", "END"} => Decided(state.completed_criteria)
    /\ (pc = "END" /\ result_writes # <<>>) =>
          \A doc \in StoredResults :
             /\ Decided(doc.completed_criteria)
             /\ DeterminationsOf(doc.completed_criteria)
                   = DeterminationsOf(state.completed_criteria)

\* one step of a run: principal_investigator decides the active criterion,
\* check_explanation leaves that determination, and a criterion enters
\* completed by the pre-pass or as the active criterion with the determination
\* it has, and keeps it from then on
AdjudicationStep ==
    pc' \in RunStages =>
       /\ pc = "principal_investigator" =>
             /\ Val(state'.active_criterion).id = Val(state.active_criterion).id
             /\ Val(state'.active_criterion).determination \in Determinations
       /\ pc = "check_explanation" =>
             /\ Val(state'.active_criterion).id = Val(state.active_criterion).id
             /\ Val(state'.active_criterion).determination
                   = Val(state.active_criterion).determination
       /\ \A j \in DOMAIN state'.completed_criteria :
             LET c == state'.completed_criteria[j]
             IN \/ pc = "start" /\ PreResolved(c) /\ IsPreResolved(c, c)
                \/ /\ j \in DOMAIN state.completed_criteria
                   /\ state.completed_criteria[j].id = c.id
                   /\ state.completed_criteria[j].determination = c.determination
                \/ /\ pc = "update_current_criterion"
                   /\ j = Len(state.completed_criteria) + 1
                   /\ Val(state.active_criterion).id = c.id
                   /\ Val(state.active_criterion).determination = c.determination
                   /\ c.determination \in Determinations

\* C35: on entering final_determination, and in the persisted result, every
\* completed criterion has a determination among met, not met and unable to
\* determine, none is null, and it is the one the adjudication of that same
\* criterion produced
CompletedDecided == []DecidedAtFinal /\ [][AdjudicationStep]_vars

CompletedDecidedWitness ==
    /\ pc = "END"
    /\ result_writes # <<>>
    /\ Len(state.completed_criteria) = 2
    /\ ~PreResolved(state.completed_criteria[1])
    /\ ~PreResolved(state.completed_criteria[2])
    /\ state.completed_criteria[1].determination = "not met"
    /\ state.completed_criteria[2].determination = "unable to determine"
    /\ run_config.check_explanations

\* ---------------------------------------------------------- no normal criterion
\* every criterion of the trial is vacuous or requires human review
NoNormalCriterion ==
    \A i \in DOMAIN trial_criteria : PreResolved(trial_criteria[i])

\* C36: when every criterion of the trial is vacuous or requires human review,
\* a call that is not skipped aborts before the first stage: there is no run
\* state, no stage has run, no LLM call was made, no final determination
\* exists and nothing was written to Redis or to the output file
AbortsWithoutNormalCriterion ==
    (NoNormalCriterion /\ pc \notin {"start", "skipped"}) =>
        /\ pc = "aborted"
        /\ state = NoState
        /\ state.final_determination = "None"
        /\ stage_log = <<>>
        /\ llm_usage = [input |-> 0, output |-> 0]
        /\ dispatched = {}
        /\ result_writes = <<>>
        /\ redis = EmptyRedis
        /\ out_file = None

AbortsWithoutNormalCriterionWitness ==
    /\ pc = "aborted"
    /\ Len(trial_criteria) = 2
    /\ trial_criteria[1].vacuous
    /\ trial_criteria[1].determination = "met"
    /\ trial_criteria[2].requires_human_review
    /\ trial_criteria[2].determination = "unable to determine"

\* ------------------------------------------------------------------ termination
\* how often a node has run
TimesRun(node) == Len(SelectSeq(stage_log, LAMBDA x : x[1] = node))

\* C37: when every LLM and retriever call returns, a run over n >= 1 normal
\* criteria reaches END; it has then gone n times from trial_coordinator to
\* update_current_criterion, the final determination was entered once, behind
\* the last update_current_criterion, and the result was persisted once
Termination ==
    /\ (pc = "start" /\ out_file = None /\ ~NoNormalCriterion) ~> (pc = "END")
    /\ [](pc = "END" =>
             /\ Len(NormalIds) >= 1
             /\ TimesRun("trial_coordinator") = Len(NormalIds)
             /\ TimesRun("principal_investigator") = Len(NormalIds)
             /\ TimesRun("update_current_criterion") = Len(NormalIds)
             /\ state.final_determination \in FinalDeterminations
             /\ Len(result_writes) = 1)
    /\ [][/\ pc' = "make_final_determination" =>
                /\ pc = "update_current_criterion"
                /\ TimesRun("update_current_criterion")' = Len(NormalIds)
          /\ pc = "make_final_determination" => pc' = "save_results"
          /\ pc' = "save_results" => pc = "make_final_determination"
          /\ pc = "END" => pc' = "END"]_vars

TerminationWitness ==
    /\ pc = "END"
    /\ Len(NormalIds) = 2
    /\ TimesRun("update_current_criterion") = 2
    /\ graph.kind = "multi"
    /\ run_config.final_determination_method = "chain_of_thought"

\* ------------------------------------------------- epoch and stored index
\* the indexes of a row's pair under which a run of the batch stored its result
IndexesOfRow(r) ==
    {i \in DOMAIN batch.store[r].ai_outputs :
        batch.store[r].ai_outputs[i] = Payload("row", r)}

\* C38: in Redis production mode a run launched for epoch e stores its result
\* under index e of its pair, whatever runs succeeded, failed or timed out
\* before, so that a later batch with the same epoch finds it and skips the pair
EpochIsIndex ==
    (pc = "experiment" /\ run_config.persist = "redis" /\ batch.epoch # None) =>
        \A r \in Rows :
           /\ IndexesOfRow(r) \subseteq {Val(batch.epoch)}
           /\ batch.persisted[r] > 0 => Val(batch.epoch) \in IndexesOfRow(r)

\* the second batch of epoch 0 stored a row's result under index 1, behind
\* the index a failed run of the first batch had counted
EpochIndexShifted ==
    /\ pc = "experiment"
    /\ run_config.persist = "redis"
    /\ batch.epoch = Some(0)
    /\ batch.pass = 2
    /\ batch.persisted[1] = 1
    /\ IndexesOfRow(1) = {1}
    /\ 0 \notin DOMAIN batch.store[1].ai_outputs

\* ------------------------------------------------ the counts and the verdict
\* C39: for a completed_criteria list whose determinations are all non-null,
\* the three counts of count_criteria_statuses add up to the length of the
\* list, every criterion is counted in exactly one class, and the rule-based
\* final determination is "ineligible" exactly when the disqualifying count is
\* at least 1
CountsAgreeWithVerdict ==
    (pc = "statuses" /\ call.counts # None
        /\ Decided(call.completed_criteria)) =>
       LET counts == Val(call.counts)
       IN /\ counts["qualifying"] + counts["disqualifying"]
                + counts["unable to determine"] = Len(call.completed_criteria)
          /\ \A i \in DOMAIN call.completed_criteria :
                Cardinality(statuses(call.completed_criteria[i])) = 1
          /\ call.final_determination # None =>
                (Val(call.final_determination) = "ineligible"
                    <=> counts["disqualifying"] >= 1)

CountsAgreeWithVerdictWitness ==
    /\ pc = "statuses"
    /\ call.counts # None
    /\ call.final_determination = Some("ineligible")
    /\ Len(call.completed_criteria) = 3
    /\ Val(call.counts)["qualifying"] = 1
    /\ Val(call.counts)["disqualifying"] = 1
    /\ Val(call.counts)["unable to determine"] = 1
    /\ call.completed_criteria[1].determination = "unable to determine"

\* ------------------------------------------------- the alarm of run_with_timeout
\* C40: once run_with_timeout has returned or raised, by normal completion, by
\* the timeout or by any other exception of the wrapped run, no alarm it armed
\* is pending: an alarm is pending only inside the call that armed it, for the
\* row that call runs
AlarmDisarmedOnExit ==
    (pc = "experiment" /\ batch.alarm # None) =>
        /\ batch.at \in InsideRun
        /\ Val(batch.alarm) = batch.row

\* the run of row 1 raised and the loop has gone on to row 2 with the alarm of
\* row 1 still pending
AlarmLeftArmed ==
    /\ pc = "experiment"
    /\ batch.row = 2
    /\ batch.at = "row"
    /\ batch.outcome[1] = "raised"
    /\ batch.alarm = Some(1)
    /\ batch.fired = {}


====
